---------------------------- MODULE Spec2Model ----------------------------
(***************************************************************************)
(* ChaseHome session engine: the socket handlers of server-js/index.js and *)
(* the RoomManager of server-js/roomManager.js over a Mongoose store.      *)
(*                                                                         *)
(* Every handler is an async function.  It is modelled as an operation     *)
(* record in `ops` whose pc names the await it is suspended at; one action *)
(* is one store operation together with the synchronous code that runs     *)
(* when it resolves, up to the next await.  Handlers of different requests *)
(* interleave freely at their awaits: the code takes no lock.              *)
(*                                                                         *)
(* Store semantics (Mongoose): findOne returns a private copy of the       *)
(* stored document; save() of a loaded document sends only the paths the   *)
(* handler modified.  array.push(v) is sent as $push and increments the    *)
(* version key __v without testing it; assigning a whole array is sent as  *)
(* $set, tests __v and increments it; assigning a field of an array        *)
(* element tests __v; assigning a value equal to the loaded one modifies   *)
(* nothing.  A failed __v test throws VersionError, which every            *)
(* RoomManager method catches and turns into its failure result.           *)
(*                                                                         *)
(* Time: a handler takes new Date() when it assigns lastActivity, before   *)
(* the await of its save, and cleanupInactiveRooms takes its cutoffTime    *)
(* before the await of its query.  Dates are millisecond values in the     *)
(* code; the model counts the clock `now` in ticks.  A tick (Elapse) is a  *)
(* passage of time longer than ROOM_TIMEOUT / TicksToExpire and not longer *)
(* than ROOM_TIMEOUT / (TicksToExpire - 1), so that a date is older than   *)
(* ROOM_TIMEOUT exactly when TicksToExpire ticks have passed since it was  *)
(* taken.  The clock runs whatever the handlers do: a tick may pass at any *)
(* await, and it changes nothing but `now`.  Dates that differ by less     *)
(* than a tick are not told apart: TicksToExpire is the resolution of the  *)
(* clock, and the clock is followed for MaxTime ticks.                     *)
(*                                                                         *)
(* Specifications.  Spec runs every socket handler of index.js with the    *)
(* sockets s0 and s1: authenticate, create_room, join_room, leave_room,    *)
(* player_move, task_complete, change_house, get_room_state, disconnect,   *)
(* and the requests of a socket that has not authenticated.  It leaves out *)
(* the HTTP routes, the methods no handler calls (cleanupInactiveRooms,    *)
(* sendPersonalMessage, broadcastToRoom), store failures and requests      *)
(* with a missing field or without a payload; each of these is run by the  *)
(* scenario named for it: "life" (sweep, administrator login and room      *)
(* close, time), "send", "fail" (store failures and the handlers that      *)
(* throw on a request without payload), "partial" (store failures of the   *)
(* handlers and of the routes that write the User collection), "anon"      *)
(* (missing fields, missing payloads).  In a specification without a route *)
(* that stores a User document none exists, as on a server to which no     *)
(* POST /api/users and no POST /admin/login was sent.                      *)
(*                                                                         *)
(* An error thrown outside every try block of an async handler is an       *)
(* unhandled promise rejection: the build targets Node 18 and installs no  *)
(* unhandledRejection handler, so the process ends (process_exit) and all  *)
(* that it held in memory is gone; the store keeps its documents.          *)
(***************************************************************************)
EXTENDS Naturals, Sequences, FiniteSets, TLC

VARIABLES
  rooms,             \* Room collection, in insertion order
  events,            \* GameEvent collection, in insertion order
  accounts,          \* User collection: uid -> document, NoAccount if none
  activeRooms,       \* RoomManager.activeRooms: roomId -> cached document
  connectedPlayers,  \* RoomManager.connectedPlayers: roomId -> set of userIds
  activeConnections, \* ConnectionManager.activeConnections: userId -> socket
  userRooms,         \* ConnectionManager.userRooms: userId -> roomId
  sockUser,          \* socket.userId of every socket
  sockOpen,          \* sockets whose transport is connected
  sockRooms,         \* socket.io room membership: socket -> set of roomIds
  emitted,           \* messages delivered to sockets
  nextRoomId,        \* ids handed out by the roomId default
  now,               \* Date.now(), in ticks since the server started
  ops                \* handler invocations, in arrival order

vars == <<rooms, events, accounts, activeRooms, connectedPlayers,
          activeConnections, userRooms, sockUser, sockOpen, sockRooms,
          emitted, nextRoomId, now, ops>>

-----------------------------------------------------------------------------
(* Program constants *)

MAX_PLAYERS_PER_ROOM == 5

DefaultX == 100

DefaultY == 100

DefaultHouse == 1

DefaultFloor == 1

(* Bounds of the model *)

MaxRooms == 2

MaxOps == 3

MaxOpsJoin == 6

MaxInFlight == 2

MaxOpsTask == 4

MaxOpsLife == 3

MaxOpsIdle == 3

MaxOpsGone == 4

MaxOpsRebind == 3

MaxOpsLeft == 5

MaxOpsFail == 3

MaxOpsAnon == 3

MaxOpsReject == 9

MaxOpsSend == 4

MaxOpsPartial == 3

MaxOpsState == 4

MaxOpsOld == 3

MaxOpsRejoin == 8

TicksToExpire == 2

MaxTime == 3

AllUsers == {"h", "u1", "u2", "u3", "u4", "u5"}

AllSockets == {"s0", "s1", "s2", "s3", "s4", "s5"}

TaskIds == {"A", "B", "C"}

HouseIds == {1, 2}

Positions == {<<DefaultX, DefaultY>>, <<7, 9>>}

RoomIdSet == 1..MaxRooms

NoUser == "none"

NoSock == "none"

NoRoomId == 0

NoDoc == [roomId |-> NoRoomId]

NoAccount == [uid |-> NoUser]

ADMIN_USERNAME == "admin"

(* The task catalog (Task collection): floor 1 of house 1 holds A and B,   *)
(* floor 1 of house 2 holds C.                                             *)
Catalog(house, floor) ==
  IF house = 1 /\ floor = 1 THEN {"A", "B"}
  ELSE IF house = 2 /\ floor = 1 THEN {"C"}
  ELSE {}

-----------------------------------------------------------------------------
(* Documents *)

Range(s) == {s[i] : i \in DOMAIN s}

Player(u) == [userId |-> u, x |-> DefaultX, y |-> DefaultY]

\* new Room({...}): lastActivity takes its default, Date.now
NewRoom(rid, host) ==
  [roomId |-> rid, hostUserId |-> host, players |-> <<Player(host)>>,
   currentHouse |-> DefaultHouse, currentFloor |-> DefaultFloor,
   activeTasks |-> <<>>, completedTasks |-> <<>>, isActive |-> TRUE,
   lastActivity |-> now, v |-> 0]

\* room.lastActivity = new Date(), on the handler's copy
Touch(doc) == [doc EXCEPT !.lastActivity = now]

\* lastActivity < Date.now() - config.ROOM_TIMEOUT
Expired(doc) == doc.lastActivity + TicksToExpire <= now

PlayerIds(doc) == {doc.players[i].userId : i \in DOMAIN doc.players}

\* Array.prototype.find on players: index of the first entry of u, 0 if none
PlayerIndex(doc, u) ==
  IF u \in PlayerIds(doc)
  THEN CHOOSE i \in DOMAIN doc.players :
         /\ doc.players[i].userId = u
         /\ \A j \in 1..(i - 1) : doc.players[j].userId # u
  ELSE 0

\* Array.prototype.filter
RECURSIVE FilterOut(_, _)
FilterOut(ps, u) ==
  IF ps = <<>> THEN <<>>
  ELSE IF Head(ps).userId = u THEN FilterOut(Tail(ps), u)
       ELSE <<Head(ps)>> \o FilterOut(Tail(ps), u)

\* The first document of the collection among those at the positions ids,
\* NoDoc if there is none
FirstMatch(ids) ==
  IF ids = {} THEN NoDoc
  ELSE rooms[CHOOSE i \in ids : \A j \in ids : i <= j]

\* Room.findOne({ roomId, isActive: true })
FindActiveRoom(rid) ==
  FirstMatch({i \in DOMAIN rooms : rooms[i].roomId = rid /\ rooms[i].isActive})

\* Room.findOne({ hostUserId, isActive: true })
FindHostRoom(u) ==
  FirstMatch({i \in DOMAIN rooms : rooms[i].hostUserId = u /\ rooms[i].isActive})

\* The stored document a loaded one came from
Stored(rid) ==
  FirstMatch({i \in DOMAIN rooms : rooms[i].roomId = rid})

\* updateOne({ _id: room._id }, ...): the update that save() sends
WriteRoom(doc) ==
  [i \in DOMAIN rooms |-> IF rooms[i].roomId = doc.roomId THEN doc ELSE rooms[i]]

\* The uids of the stored User documents
Users == {u \in AllUsers : accounts[u] # NoAccount}

\* The place of a document inserted now in the natural order of the User
\* collection: after every stored document
NextPlace ==
  IF Users = {} THEN 1
  ELSE 1 + CHOOSE m \in {accounts[u].n : u \in Users} :
             \A u \in Users : accounts[u].n <= m

\* new User({ username, isAdmin }) with the uid its schema default
\* generated, as save() inserts it; n is its place in the natural order
NewUser(uid, username, isAdmin) ==
  [uid |-> uid, username |-> username, isAdmin |-> isAdmin, completedTasks |-> {},
   n |-> NextPlace]

\* User.findOne({ username }) finds a document (username is not unique)
UsernameTaken(username) ==
  \E u \in Users : accounts[u].username = username

\* The uid of the document User.findOne({ username }) finds: the first of
\* the collection with that username
UidOf(username) ==
  CHOOSE u \in Users :
    /\ accounts[u].username = username
    /\ \A w \in Users : accounts[w].username = username => accounts[u].n <= accounts[w].n

\* new GameEvent({...}).save()
Event(rid, u, type, data) ==
  [roomId |-> rid, userId |-> u, eventType |-> type, eventData |-> data]

\* Payloads are records, so that messages of different types compare
Str(x) == [v |-> x]

\* The inputs of an action: data.taskId, data.houseId, data.x and data.y
Arg(taskId, houseId, x, y) == [taskId |-> taskId, houseId |-> houseId, x |-> x, y |-> y]

NoArg == Arg("", 0, 0, 0)

Msg(to, type, rid, data) == [to |-> to, type |-> type, room |-> rid, data |-> data]

\* socket.to(roomId): the sockets joined to roomId other than s
OthersIn(rid, s) == {t \in AllSockets : rid \in sockRooms[t] /\ t # s /\ t \in sockOpen}

\* io.to(roomId): the sockets joined to roomId
AllIn(rid) == {t \in AllSockets : rid \in sockRooms[t] /\ t \in sockOpen}

-----------------------------------------------------------------------------
(* Operation records *)

NewOp(kind, s, u, rid, arg) ==
  [kind |-> kind, pc |-> "findOne", sock |-> s, user |-> u, room |-> rid,
   arg |-> arg, doc |-> NoDoc, mods |-> {}, res |-> "none", floor |-> "none",
   found |-> <<>>, cutoff |-> 0, username |-> "", password |-> "", uid |-> NoUser]

Finish(o, res) == [o EXCEPT !.pc = "done", !.res = res, !.doc = NoDoc]

\* Mongoose change tracking.  mods holds the modified paths of a loaded
\* document: "players", "completedTasks" (the array was assigned),
\* "$push players", "$push completedTasks" (array.push), "players.$.x",
\* "players.$.y", "players.$.lastSeen" (a field of the caller's array element
\* was assigned), "currentHouse", "isActive".
VersionWhere(mods) ==
  mods \cap {"players", "completedTasks", "players.$.x", "players.$.y",
             "players.$.lastSeen"} # {}

VersionInc(mods) ==
  mods \cap {"players", "completedTasks", "$push players", "$push completedTasks"} # {}

\* save() throws VersionError when the update tests __v and matches nothing
VersionError(stored, local, mods) == VersionWhere(mods) /\ stored.v # local.v

\* The stored document after the update that save() sends.  Every caller
\* has assigned lastActivity, so the value the handler took before the await
\* is part of the update.
Saved(stored, local, mods, u) ==
  [stored EXCEPT
     !.players =
        IF "players" \in mods THEN local.players
        ELSE IF "$push players" \in mods THEN Append(@, local.players[Len(local.players)])
        ELSE [i \in DOMAIN @ |->
                IF i # PlayerIndex(local, u) THEN @[i]
                ELSE [@[i] EXCEPT
                        !.x = IF "players.$.x" \in mods THEN local.players[i].x ELSE @,
                        !.y = IF "players.$.y" \in mods THEN local.players[i].y ELSE @]],
     !.completedTasks =
        IF "completedTasks" \in mods THEN local.completedTasks
        ELSE IF "$push completedTasks" \in mods
             THEN Append(@, local.completedTasks[Len(local.completedTasks)])
        ELSE @,
     !.currentHouse = IF "currentHouse" \in mods THEN local.currentHouse ELSE @,
     !.isActive = IF "isActive" \in mods THEN local.isActive ELSE @,
     !.lastActivity = local.lastActivity,
     !.v = IF VersionInc(mods) THEN @ + 1 ELSE @]

\* The handler's document once save() has resolved
AfterSave(local, mods) ==
  [local EXCEPT !.v = IF VersionInc(mods) THEN @ + 1 ELSE @]

SetOp(k, o) == [ops EXCEPT ![k] = o]

InFlight(k) == ops[k].pc # "done"

\* What a socket.emit / broadcast delivers: nothing to a closed transport
Deliver(socks, type, rid, data) ==
  {Msg(t, type, rid, data) : t \in (socks \cap sockOpen)}

CreatesAtFind == {k \in DOMAIN ops : ops[k].kind = "create" /\ ops[k].pc = "findOne"}

-----------------------------------------------------------------------------
(* socket.on('authenticate') *)

authenticate(s, u) ==
  /\ s \in sockOpen
  /\ activeConnections' = [activeConnections EXCEPT ![u] = s]
  /\ sockUser' = [sockUser EXCEPT ![s] = u]
  /\ emitted' = emitted \cup Deliver({s}, "authenticated", NoRoomId, Str(u))
  /\ UNCHANGED <<rooms, events, accounts, activeRooms, connectedPlayers,
                 userRooms, sockOpen, sockRooms, nextRoomId, now, ops>>

-----------------------------------------------------------------------------
(* RoomManager.getRoomState, as the last call of a handler: two awaits,  *)
(* Room.findOne and Task.find, and the caller's emit after the second.   *)

\* a snapshot that lists every task of the floor as active
RoomState_WholeFloor(doc) ==
  [players |-> doc.players, currentHouse |-> doc.currentHouse,
   currentFloor |-> doc.currentFloor,
   activeTasks |-> Catalog(doc.currentHouse, doc.currentFloor),
   completedTasks |-> doc.completedTasks]

\* The object getRoomState returns; activeTasks holds the taskId of every
\* Task document that floorTasks.filter keeps
RoomState(doc) ==
  [players |-> doc.players, currentHouse |-> doc.currentHouse,
   currentFloor |-> doc.currentFloor,
   activeTasks |-> Catalog(doc.currentHouse, doc.currentFloor)
                     \ Range(doc.completedTasks),
   completedTasks |-> doc.completedTasks]

\* Room.findOne({ roomId, isActive: true }) resolves: null is returned for no
\* document, and the caller emits nothing
getRoomState_findOne(k) ==
  /\ k \in DOMAIN ops
  /\ ops[k].pc = "getRoomState"
  /\ LET o == ops[k]
         room == FindActiveRoom(o.room)
     IN ops' = SetOp(k, IF room = NoDoc
                        THEN [o EXCEPT !.pc = "done"]
                        ELSE [o EXCEPT !.pc = "Task.find", !.doc = room])
  /\ UNCHANGED <<rooms, events, accounts, activeRooms, connectedPlayers,
                 activeConnections, userRooms, sockUser, sockOpen, sockRooms,
                 emitted, nextRoomId, now>>

\* Task.find({ houseId, floor }) resolves: the snapshot of the document read
\* at the first await is returned and the caller emits it, change_house to
\* io.to(roomId), every other caller to its own socket
getRoomState_find(k) ==
  /\ k \in DOMAIN ops
  /\ ops[k].pc = "Task.find"
  /\ LET o == ops[k]
         to == IF o.kind = "house" THEN AllIn(o.room) ELSE {o.sock}
     IN /\ emitted' = emitted \cup Deliver(to, "room_state", o.room, RoomState(o.doc))
        /\ ops' = SetOp(k, [o EXCEPT !.pc = "done", !.doc = NoDoc])
  /\ UNCHANGED <<rooms, events, accounts, activeRooms, connectedPlayers,
                 activeConnections, userRooms, sockUser, sockOpen, sockRooms,
                 nextRoomId, now>>

\* Room.findOne rejects: the catch block of getRoomState returns null and
\* the caller emits nothing
getRoomState_findOneFails(k) ==
  /\ k \in DOMAIN ops
  /\ ops[k].pc = "getRoomState"
  /\ ops' = SetOp(k, [ops[k] EXCEPT !.pc = "done"])
  /\ UNCHANGED <<rooms, events, accounts, activeRooms, connectedPlayers,
                 activeConnections, userRooms, sockUser, sockOpen, sockRooms,
                 emitted, nextRoomId, now>>

\* Task.find rejects: the catch block of getRoomState returns null and the
\* caller emits nothing
getRoomState_findFails(k) ==
  /\ k \in DOMAIN ops
  /\ ops[k].pc = "Task.find"
  /\ ops' = SetOp(k, [ops[k] EXCEPT !.pc = "done", !.doc = NoDoc])
  /\ UNCHANGED <<rooms, events, accounts, activeRooms, connectedPlayers,
                 activeConnections, userRooms, sockUser, sockOpen, sockRooms,
                 emitted, nextRoomId, now>>

\* socket.on('get_room_state')
on_get_room_state(s, max) ==
  /\ s \in sockOpen
  /\ sockUser[s] # NoUser
  /\ userRooms[sockUser[s]] # NoRoomId
  /\ Len(ops) < max
  /\ ops' = Append(ops, [NewOp("state", s, sockUser[s], userRooms[sockUser[s]], NoArg)
                           EXCEPT !.pc = "getRoomState"])
  /\ UNCHANGED <<rooms, events, accounts, activeRooms, connectedPlayers,
                 activeConnections, userRooms, sockUser, sockOpen, sockRooms,
                 emitted, nextRoomId, now>>

-----------------------------------------------------------------------------
(* socket.on('create_room') and RoomManager.createRoom *)

on_create_room(s, max) ==
  /\ s \in sockOpen
  /\ sockUser[s] # NoUser
  /\ Len(ops) < max
  /\ nextRoomId + Cardinality(CreatesAtFind) <= MaxRooms
  /\ ops' = Append(ops, NewOp("create", s, sockUser[s], NoRoomId, NoArg))
  /\ UNCHANGED <<rooms, events, accounts, activeRooms, connectedPlayers,
                 activeConnections, userRooms, sockUser, sockOpen, sockRooms,
                 emitted, nextRoomId, now>>

\* The handler's code after createRoom has returned roomId
CreatedTail(o, rid) ==
  /\ userRooms' = IF sockUser[o.sock] = NoUser THEN userRooms
                  ELSE [userRooms EXCEPT ![sockUser[o.sock]] = rid]
  /\ sockRooms' = [sockRooms EXCEPT ![o.sock] = @ \cup {rid}]
  /\ emitted' = emitted \cup Deliver({o.sock}, "room_created", rid, Str(""))

createRoom_findOne(k) ==
  /\ k \in DOMAIN ops
  /\ ops[k].kind = "create" /\ ops[k].pc = "findOne"
  /\ LET o == ops[k]
         existingRoom == FindHostRoom(o.user)
     IN IF existingRoom # NoDoc
        THEN /\ ops' = SetOp(k, [o EXCEPT !.pc = "getRoomState", !.res = "true",
                                          !.mods = {"existing"},
                                          !.room = existingRoom.roomId])
             /\ CreatedTail(o, existingRoom.roomId)
             /\ UNCHANGED nextRoomId
        ELSE /\ ops' = SetOp(k, [o EXCEPT !.pc = "save", !.mods = {"new"},
                                          !.room = nextRoomId,
                                          !.doc = NewRoom(nextRoomId, o.user)])
             /\ nextRoomId' = nextRoomId + 1
             /\ UNCHANGED <<userRooms, sockRooms, emitted>>
  /\ UNCHANGED <<rooms, events, accounts, activeRooms, connectedPlayers,
                 activeConnections, sockUser, sockOpen, now>>

createRoom_save(k) ==
  /\ k \in DOMAIN ops
  /\ ops[k].kind = "create" /\ ops[k].pc = "save"
  /\ LET o == ops[k]
     IN /\ rooms' = Append(rooms, o.doc)
        /\ activeRooms' = [activeRooms EXCEPT ![o.room] = o.doc]
        /\ connectedPlayers' = [connectedPlayers EXCEPT ![o.room] = {o.user}]
        /\ ops' = SetOp(k, [o EXCEPT !.pc = "log", !.doc = NoDoc])
  /\ UNCHANGED <<events, accounts, activeConnections, userRooms, sockUser,
                 sockOpen, sockRooms, emitted, nextRoomId, now>>

createRoom_log(k) ==
  /\ k \in DOMAIN ops
  /\ ops[k].kind = "create" /\ ops[k].pc = "log"
  /\ LET o == ops[k]
     IN /\ events' = Append(events, Event(o.room, o.user, "game_start", NoArg))
        /\ ops' = SetOp(k, [o EXCEPT !.pc = "getRoomState", !.res = "true"])
        /\ CreatedTail(o, o.room)
  /\ UNCHANGED <<rooms, accounts, activeRooms, connectedPlayers,
                 activeConnections, sockUser, sockOpen, nextRoomId, now>>

-----------------------------------------------------------------------------
(* socket.on('join_room') and RoomManager.joinRoom *)

on_join_room(s, rid, max) ==
  /\ s \in sockOpen
  /\ sockUser[s] # NoUser
  /\ Len(ops) < max
  /\ ops' = Append(ops, NewOp("join", s, sockUser[s], rid, NoArg))
  /\ UNCHANGED <<rooms, events, accounts, activeRooms, connectedPlayers,
                 activeConnections, userRooms, sockUser, sockOpen, sockRooms,
                 emitted, nextRoomId, now>>

\* joinRoom's capacity test
RoomIsFull(room) == Len(room.players) >= MAX_PLAYERS_PER_ROOM

\* a handler that reports the failed join to the room as well
JoinFailed_Broadcast(k, o) ==
  /\ ops' = SetOp(k, Finish(o, "false"))
  /\ emitted' = emitted \cup Deliver({o.sock} \cup AllIn(o.room), "error", o.room,
                                     Str("Failed to join room"))

\* The handler's else branch: joinRoom returned false
JoinFailed(k, o) ==
  /\ ops' = SetOp(k, Finish(o, "false"))
  /\ emitted' = emitted \cup Deliver({o.sock}, "error", o.room, Str("Failed to join room"))

joinRoom_findOne(k) ==
  /\ k \in DOMAIN ops
  /\ ops[k].kind = "join" /\ ops[k].pc = "findOne"
  /\ LET o == ops[k]
         room == FindActiveRoom(o.room)
     IN IF room = NoDoc
        THEN JoinFailed(k, o)
        ELSE IF RoomIsFull(room)
        THEN JoinFailed(k, o)
        ELSE /\ ops' = SetOp(k,
                  IF o.user \in PlayerIds(room)
                  THEN [o EXCEPT !.pc = "save", !.mods = {"players.$.lastSeen"},
                                 !.doc = Touch(room)]
                  ELSE [o EXCEPT !.pc = "save", !.mods = {"$push players"},
                                 !.doc = [Touch(room) EXCEPT !.players =
                                            Append(@, Player(o.user))]])
             /\ UNCHANGED emitted
  /\ UNCHANGED <<rooms, events, accounts, activeRooms, connectedPlayers,
                 activeConnections, userRooms, sockUser, sockOpen, sockRooms,
                 nextRoomId, now>>

\* room.save() of joinRoom and the cache update after it
joinRoom_save(k) ==
  /\ k \in DOMAIN ops
  /\ ops[k].kind = "join" /\ ops[k].pc = "save"
  /\ LET o == ops[k]
         stored == Stored(o.room)
     IN IF VersionError(stored, o.doc, o.mods)
        THEN /\ JoinFailed(k, o)
             /\ UNCHANGED <<rooms, activeRooms, connectedPlayers>>
        ELSE /\ rooms' = WriteRoom(Saved(stored, o.doc, o.mods, o.user))
             /\ activeRooms' = [activeRooms EXCEPT ![o.room] = AfterSave(o.doc, o.mods)]
             /\ connectedPlayers' = [connectedPlayers EXCEPT ![o.room] = @ \cup {o.user}]
             /\ ops' = SetOp(k, [o EXCEPT !.pc = "log", !.doc = NoDoc])
             /\ UNCHANGED emitted
  /\ UNCHANGED <<events, accounts, activeConnections, userRooms, sockUser,
                 sockOpen, sockRooms, nextRoomId, now>>

joinRoom_log(k) ==
  /\ k \in DOMAIN ops
  /\ ops[k].kind = "join" /\ ops[k].pc = "log"
  /\ LET o == ops[k]
     IN /\ events' = Append(events, Event(o.room, o.user, "player_join", NoArg))
        /\ ops' = SetOp(k, [o EXCEPT !.pc = "getRoomState", !.res = "true"])
        /\ userRooms' = IF sockUser[o.sock] = NoUser THEN userRooms
                        ELSE [userRooms EXCEPT ![sockUser[o.sock]] = o.room]
        /\ sockRooms' = [sockRooms EXCEPT ![o.sock] = @ \cup {o.room}]
        /\ emitted' = emitted \cup
                        Deliver(OthersIn(o.room, o.sock), "player_joined", o.room,
                                Str(sockUser[o.sock]))
  /\ UNCHANGED <<rooms, accounts, activeRooms, connectedPlayers,
                 activeConnections, sockUser, sockOpen, nextRoomId, now>>

-----------------------------------------------------------------------------
(* RoomManager.leaveRoom, called by socket.on('leave_room') and by          *)
(* socket.on('disconnect')                                                 *)

on_leave_room(s, max) ==
  /\ s \in sockOpen
  /\ sockUser[s] # NoUser
  /\ userRooms[sockUser[s]] # NoRoomId
  /\ Len(ops) < max
  /\ ops' = Append(ops, NewOp("leave", s, sockUser[s], userRooms[sockUser[s]], NoArg))
  /\ UNCHANGED <<rooms, events, accounts, activeRooms, connectedPlayers,
                 activeConnections, userRooms, sockUser, sockOpen, sockRooms,
                 emitted, nextRoomId, now>>

\* ConnectionManager.disconnect
Disconnected(u) ==
  /\ activeConnections' = [activeConnections EXCEPT ![u] = NoSock]
  /\ userRooms' = [userRooms EXCEPT ![u] = NoRoomId]

\* The transport of s closes: socket.io takes s out of its rooms, then runs
\* the 'disconnect' handler
on_disconnect(s, max) ==
  /\ s \in sockOpen
  /\ sockOpen' = sockOpen \ {s}
  /\ sockRooms' = [sockRooms EXCEPT ![s] = {}]
  /\ IF sockUser[s] = NoUser
     THEN UNCHANGED <<ops, activeConnections, userRooms>>
     ELSE IF userRooms[sockUser[s]] = NoRoomId
     THEN Disconnected(sockUser[s]) /\ UNCHANGED ops
     ELSE /\ Len(ops) < max
          /\ ops' = Append(ops, NewOp("disconnect", s, sockUser[s],
                                      userRooms[sockUser[s]], NoArg))
          /\ UNCHANGED <<activeConnections, userRooms>>
  /\ UNCHANGED <<rooms, events, accounts, activeRooms, connectedPlayers,
                 sockUser, emitted, nextRoomId, now>>

\* The code of the two handlers after leaveRoom has returned
LeftTail(k, o, success) ==
  IF o.kind = "leave"
  THEN /\ ops' = SetOp(k, Finish(o, IF success THEN "true" ELSE "false"))
       /\ IF success
          THEN /\ emitted' = emitted
                    \cup Deliver(OthersIn(o.room, o.sock), "player_left", o.room,
                                 Str(sockUser[o.sock]))
                    \cup Deliver({o.sock}, "room_left", o.room, Str(""))
               /\ sockRooms' = [sockRooms EXCEPT ![o.sock] = @ \ {o.room}]
               /\ userRooms' = IF sockUser[o.sock] = NoUser THEN userRooms
                               ELSE [userRooms EXCEPT ![sockUser[o.sock]] = NoRoomId]
          ELSE UNCHANGED <<emitted, sockRooms, userRooms>>
       /\ UNCHANGED activeConnections
  ELSE /\ ops' = SetOp(k, Finish(o, IF success THEN "true" ELSE "false"))
       /\ emitted' = emitted
            \cup Deliver(OthersIn(o.room, o.sock), "player_left", o.room,
                         Str(sockUser[o.sock]))
       /\ Disconnected(sockUser[o.sock])
       /\ UNCHANGED sockRooms

\* a leaveRoom that never closes the room
LeaveCloses_Never(room, u) == FALSE

\* a leaveRoom that closes the room only when it empties the roster
LeaveCloses_EmptyOnly(room, u) == FilterOut(room.players, u) = <<>>

\* room.players.length === 0 || room.hostUserId === userId, after the filter
LeaveCloses(room, u) ==
  FilterOut(room.players, u) = <<>> \/ room.hostUserId = u

leaveRoom_findOne(k) ==
  /\ k \in DOMAIN ops
  /\ ops[k].kind \in {"leave", "disconnect"} /\ ops[k].pc = "findOne"
  /\ LET o == ops[k]
         room == FindActiveRoom(o.room)
         remaining == FilterOut(room.players, o.user)
         closes == LeaveCloses(room, o.user)
     IN IF room = NoDoc
        THEN LeftTail(k, o, FALSE)
        ELSE /\ ops' = SetOp(k, [o EXCEPT
                  !.pc = "save",
                  !.mods = (IF remaining # room.players THEN {"players"} ELSE {})
                           \cup (IF closes THEN {"isActive"} ELSE {}),
                  !.doc = [Touch(room) EXCEPT !.players = remaining,
                                       !.isActive = ~closes]])
             /\ UNCHANGED <<emitted, sockRooms, userRooms, activeConnections>>
  /\ UNCHANGED <<rooms, events, accounts, activeRooms, connectedPlayers,
                 sockUser, sockOpen, nextRoomId, now>>

\* room.save() of leaveRoom and the cache update after it
leaveRoom_save(k) ==
  /\ k \in DOMAIN ops
  /\ ops[k].kind \in {"leave", "disconnect"} /\ ops[k].pc = "save"
  /\ LET o == ops[k]
         stored == Stored(o.room)
         left == connectedPlayers[o.room] \ {o.user}
     IN IF VersionError(stored, o.doc, o.mods)
        THEN /\ LeftTail(k, o, FALSE)
             /\ UNCHANGED <<rooms, activeRooms, connectedPlayers>>
        ELSE /\ rooms' = WriteRoom(Saved(stored, o.doc, o.mods, o.user))
             /\ connectedPlayers' = [connectedPlayers EXCEPT ![o.room] = left]
             /\ activeRooms' =
                  IF connectedPlayers[o.room] # {} /\ left = {}
                  THEN [activeRooms EXCEPT ![o.room] = NoDoc]
                  ELSE activeRooms
             /\ ops' = SetOp(k, [o EXCEPT !.pc = "log", !.doc = NoDoc])
             /\ UNCHANGED <<emitted, sockRooms, userRooms, activeConnections>>
  /\ UNCHANGED <<events, accounts, sockUser, sockOpen, nextRoomId, now>>

leaveRoom_log(k) ==
  /\ k \in DOMAIN ops
  /\ ops[k].kind \in {"leave", "disconnect"} /\ ops[k].pc = "log"
  /\ LET o == ops[k]
     IN /\ events' = Append(events, Event(o.room, o.user, "player_leave", NoArg))
        /\ LeftTail(k, o, TRUE)
  /\ UNCHANGED <<rooms, accounts, activeRooms, connectedPlayers,
                 sockUser, sockOpen, nextRoomId, now>>

-----------------------------------------------------------------------------
(* socket.on('player_move') and RoomManager.updatePlayerPosition *)

on_player_move(s, x, y, max) ==
  /\ s \in sockOpen
  /\ sockUser[s] # NoUser
  /\ userRooms[sockUser[s]] # NoRoomId
  /\ Len(ops) < max
  /\ ops' = Append(ops, NewOp("move", s, sockUser[s], userRooms[sockUser[s]],
                              Arg("", 0, x, y)))
  /\ UNCHANGED <<rooms, events, accounts, activeRooms, connectedPlayers,
                 activeConnections, userRooms, sockUser, sockOpen, sockRooms,
                 emitted, nextRoomId, now>>

updatePlayerPosition_findOne(k) ==
  /\ k \in DOMAIN ops
  /\ ops[k].kind = "move" /\ ops[k].pc = "findOne"
  /\ LET o == ops[k]
         room == FindActiveRoom(o.room)
         i == PlayerIndex(room, o.user)
     IN IF room = NoDoc
        THEN ops' = SetOp(k, Finish(o, "false"))
        ELSE IF i = 0
        THEN ops' = SetOp(k, Finish(o, "false"))
        ELSE ops' = SetOp(k, [o EXCEPT
               !.pc = "save",
               !.mods = {"players.$.lastSeen"}
                        \cup (IF room.players[i].x # o.arg.x THEN {"players.$.x"} ELSE {})
                        \cup (IF room.players[i].y # o.arg.y THEN {"players.$.y"} ELSE {}),
               !.doc = [Touch(room) EXCEPT !.players[i].x = o.arg.x,
                                    !.players[i].y = o.arg.y]])
  /\ UNCHANGED <<rooms, events, accounts, activeRooms, connectedPlayers,
                 activeConnections, userRooms, sockUser, sockOpen, sockRooms,
                 emitted, nextRoomId, now>>

updatePlayerPosition_save(k) ==
  /\ k \in DOMAIN ops
  /\ ops[k].kind = "move" /\ ops[k].pc = "save"
  /\ LET o == ops[k]
         stored == Stored(o.room)
     IN IF VersionError(stored, o.doc, o.mods)
        THEN /\ ops' = SetOp(k, Finish(o, "false"))
             /\ UNCHANGED <<rooms, activeRooms, emitted>>
        ELSE /\ rooms' = WriteRoom(Saved(stored, o.doc, o.mods, o.user))
             /\ activeRooms' = [activeRooms EXCEPT ![o.room] = AfterSave(o.doc, o.mods)]
             /\ ops' = SetOp(k, Finish(o, "true"))
             /\ emitted' = emitted
                  \cup Deliver(OthersIn(o.room, o.sock), "player_moved", o.room,
                               [userId |-> sockUser[o.sock], x |-> o.arg.x, y |-> o.arg.y])
  /\ UNCHANGED <<events, accounts, connectedPlayers, activeConnections,
                 userRooms, sockUser, sockOpen, sockRooms, nextRoomId, now>>

-----------------------------------------------------------------------------
(* socket.on('task_complete'), RoomManager.completeTask and                *)
(* RoomManager.checkFloorCompletion                                        *)

on_task_complete(s, taskId, max) ==
  /\ s \in sockOpen
  /\ sockUser[s] # NoUser
  /\ userRooms[sockUser[s]] # NoRoomId
  /\ Len(ops) < max
  /\ ops' = Append(ops, NewOp("task", s, sockUser[s], userRooms[sockUser[s]],
                              Arg(taskId, 0, 0, 0)))
  /\ UNCHANGED <<rooms, events, accounts, activeRooms, connectedPlayers,
                 activeConnections, userRooms, sockUser, sockOpen, sockRooms,
                 emitted, nextRoomId, now>>

\* completeTask's test before it records the task
AlreadyCompleted(room, taskId) == taskId \in Range(room.completedTasks)

completeTask_findOne(k) ==
  /\ k \in DOMAIN ops
  /\ ops[k].kind = "task" /\ ops[k].pc = "findOne"
  /\ LET o == ops[k]
         room == FindActiveRoom(o.room)
     IN IF room = NoDoc
        THEN ops' = SetOp(k, Finish(o, "false"))
        ELSE IF AlreadyCompleted(room, o.arg.taskId)
        THEN ops' = SetOp(k, Finish(o, "false"))
        ELSE ops' = SetOp(k, [o EXCEPT
               !.pc = "save",
               !.mods = {"$push completedTasks"},
               !.doc = [Touch(room) EXCEPT !.completedTasks = Append(@, o.arg.taskId)]])
  /\ UNCHANGED <<rooms, events, accounts, activeRooms, connectedPlayers,
                 activeConnections, userRooms, sockUser, sockOpen, sockRooms,
                 emitted, nextRoomId, now>>

completeTask_save(k) ==
  /\ k \in DOMAIN ops
  /\ ops[k].kind = "task" /\ ops[k].pc = "save"
  /\ LET o == ops[k]
         stored == Stored(o.room)
     IN IF VersionError(stored, o.doc, o.mods)
        THEN /\ ops' = SetOp(k, Finish(o, "false"))
             /\ UNCHANGED rooms
        ELSE /\ rooms' = WriteRoom(Saved(stored, o.doc, o.mods, o.user))
             /\ ops' = SetOp(k, [o EXCEPT !.pc = "updateOne",
                                          !.doc = AfterSave(o.doc, o.mods)])
  /\ UNCHANGED <<events, accounts, activeRooms, connectedPlayers,
                 activeConnections, userRooms, sockUser, sockOpen, sockRooms,
                 emitted, nextRoomId, now>>

\* User.updateOne({ uid }, { $addToSet: { completedTasks: taskId } })
completeTask_updateOne(k) ==
  /\ k \in DOMAIN ops
  /\ ops[k].kind = "task" /\ ops[k].pc = "updateOne"
  /\ accounts' = IF accounts[ops[k].user] = NoAccount
                 THEN accounts
                 ELSE [accounts EXCEPT ![ops[k].user].completedTasks =
                                          @ \cup {ops[k].arg.taskId}]
  /\ ops' = SetOp(k, [ops[k] EXCEPT !.pc = "log"])
  /\ UNCHANGED <<rooms, events, activeRooms, connectedPlayers,
                 activeConnections, userRooms, sockUser, sockOpen, sockRooms,
                 emitted, nextRoomId, now>>

completeTask_log(k) ==
  /\ k \in DOMAIN ops
  /\ ops[k].kind = "task" /\ ops[k].pc = "log"
  /\ LET o == ops[k]
     IN /\ events' = Append(events, Event(o.room, o.user, "task_complete", o.arg))
        /\ activeRooms' = [activeRooms EXCEPT ![o.room] = o.doc]
        /\ ops' = SetOp(k, [o EXCEPT !.pc = "checkFloor", !.res = "true",
                                     !.doc = NoDoc])
        /\ emitted' = emitted
             \cup Deliver(AllIn(o.room), "task_completed", o.room,
                          [taskId |-> o.arg.taskId, completedBy |-> sockUser[o.sock]])
  /\ UNCHANGED <<rooms, accounts, connectedPlayers, activeConnections,
                 userRooms, sockUser, sockOpen, sockRooms, nextRoomId, now>>

\* a floor check that is satisfied by one completed task of the floor
AllCompleted_Any(room) ==
  \E taskId \in Catalog(room.currentHouse, room.currentFloor) :
     taskId \in Range(room.completedTasks)

\* requiredTaskIds.every(taskId => completedTaskIds.includes(taskId))
AllCompleted(room) ==
  \A taskId \in Catalog(room.currentHouse, room.currentFloor) :
     taskId \in Range(room.completedTasks)

\* Room.findOne({ roomId, isActive: true }) of checkFloorCompletion
checkFloorCompletion_findOne(k) ==
  /\ k \in DOMAIN ops
  /\ ops[k].kind = "task" /\ ops[k].pc = "checkFloor"
  /\ LET o == ops[k]
         room == FindActiveRoom(o.room)
     IN IF room = NoDoc
        THEN ops' = SetOp(k, [o EXCEPT !.pc = "done", !.floor = "false"])
        ELSE ops' = SetOp(k, [o EXCEPT !.pc = "floorTasks", !.doc = room])
  /\ UNCHANGED <<rooms, events, accounts, activeRooms, connectedPlayers,
                 activeConnections, userRooms, sockUser, sockOpen, sockRooms,
                 emitted, nextRoomId, now>>

\* Task.find({ houseId, floor }) and the test of the room read before it
checkFloorCompletion_find(k) ==
  /\ k \in DOMAIN ops
  /\ ops[k].kind = "task" /\ ops[k].pc = "floorTasks"
  /\ LET o == ops[k]
     IN IF AllCompleted(o.doc)
        THEN ops' = SetOp(k, [o EXCEPT !.pc = "floorLog"])
        ELSE ops' = SetOp(k, [o EXCEPT !.pc = "done", !.floor = "false",
                                       !.doc = NoDoc])
  /\ UNCHANGED <<rooms, events, accounts, activeRooms, connectedPlayers,
                 activeConnections, userRooms, sockUser, sockOpen, sockRooms,
                 emitted, nextRoomId, now>>

checkFloorCompletion_log(k) ==
  /\ k \in DOMAIN ops
  /\ ops[k].kind = "task" /\ ops[k].pc = "floorLog"
  /\ LET o == ops[k]
     IN /\ events' = Append(events, Event(o.room, o.doc.hostUserId, "floor_complete",
                                          Arg("", o.doc.currentHouse, 0, 0)))
        /\ ops' = SetOp(k, [o EXCEPT !.pc = "done", !.floor = "true", !.doc = NoDoc])
        /\ emitted' = emitted
             \cup Deliver(AllIn(o.room), "floor_complete", o.room, Str(""))
  /\ UNCHANGED <<rooms, accounts, activeRooms, connectedPlayers,
                 activeConnections, userRooms, sockUser, sockOpen, sockRooms,
                 nextRoomId, now>>

-----------------------------------------------------------------------------
(* socket.on('change_house') and RoomManager.changeHouse *)

on_change_house(s, houseId, max) ==
  /\ s \in sockOpen
  /\ sockUser[s] # NoUser
  /\ userRooms[sockUser[s]] # NoRoomId
  /\ Len(ops) < max
  /\ ops' = Append(ops, NewOp("house", s, sockUser[s], userRooms[sockUser[s]],
                              Arg("", houseId, 0, 0)))
  /\ UNCHANGED <<rooms, events, accounts, activeRooms, connectedPlayers,
                 activeConnections, userRooms, sockUser, sockOpen, sockRooms,
                 emitted, nextRoomId, now>>

changeHouse_findOne(k) ==
  /\ k \in DOMAIN ops
  /\ ops[k].kind = "house" /\ ops[k].pc = "findOne"
  /\ LET o == ops[k]
         room == FindActiveRoom(o.room)
     IN IF room = NoDoc
        THEN ops' = SetOp(k, Finish(o, "false"))
        ELSE ops' = SetOp(k, [o EXCEPT
               !.pc = "save",
               !.mods = (IF room.currentHouse # o.arg.houseId
                         THEN {"currentHouse"} ELSE {})
                        \cup (IF room.completedTasks # <<>>
                              THEN {"completedTasks"} ELSE {}),
               !.doc = [Touch(room) EXCEPT !.currentHouse = o.arg.houseId,
                                    !.currentFloor = 1,
                                    !.completedTasks = <<>>,
                                    !.activeTasks = <<>>]])
  /\ UNCHANGED <<rooms, events, accounts, activeRooms, connectedPlayers,
                 activeConnections, userRooms, sockUser, sockOpen, sockRooms,
                 emitted, nextRoomId, now>>

changeHouse_save(k) ==
  /\ k \in DOMAIN ops
  /\ ops[k].kind = "house" /\ ops[k].pc = "save"
  /\ LET o == ops[k]
         stored == Stored(o.room)
     IN IF VersionError(stored, o.doc, o.mods)
        THEN /\ ops' = SetOp(k, Finish(o, "false"))
             /\ UNCHANGED rooms
        ELSE /\ rooms' = WriteRoom(Saved(stored, o.doc, o.mods, o.user))
             /\ ops' = SetOp(k, [o EXCEPT !.pc = "log",
                                          !.doc = AfterSave(o.doc, o.mods)])
  /\ UNCHANGED <<events, accounts, activeRooms, connectedPlayers,
                 activeConnections, userRooms, sockUser, sockOpen, sockRooms,
                 emitted, nextRoomId, now>>

changeHouse_log(k) ==
  /\ k \in DOMAIN ops
  /\ ops[k].kind = "house" /\ ops[k].pc = "log"
  /\ LET o == ops[k]
     IN /\ events' = Append(events, Event(o.room, o.doc.hostUserId, "house_change", o.arg))
        /\ activeRooms' = [activeRooms EXCEPT ![o.room] = o.doc]
        /\ ops' = SetOp(k, [o EXCEPT !.pc = "getRoomState", !.res = "true",
                                     !.doc = NoDoc])
  /\ UNCHANGED <<rooms, accounts, connectedPlayers, activeConnections,
                 userRooms, sockUser, sockOpen, sockRooms, emitted, nextRoomId, now>>

-----------------------------------------------------------------------------
(* RoomManager.cleanupInactiveRooms.  index.js sets no timer for it and no  *)
(* handler calls it: only the scenario "life" below invokes it, as a caller *)
(* of the method would.                                                     *)

\* One tick passes
Elapse ==
  /\ now < MaxTime
  /\ now' = now + 1
  /\ UNCHANGED <<rooms, events, accounts, activeRooms, connectedPlayers,
                 activeConnections, userRooms, sockUser, sockOpen, sockRooms,
                 emitted, nextRoomId, ops>>

\* const cutoffTime = new Date(Date.now() - config.ROOM_TIMEOUT), taken when
\* the method is called: cutoff keeps the Date.now() it was computed from
on_sweep(max) ==
  /\ Len(ops) < max
  /\ ops' = Append(ops, [NewOp("sweep", NoSock, NoUser, NoRoomId, NoArg)
                           EXCEPT !.cutoff = now])
  /\ UNCHANGED <<rooms, events, accounts, activeRooms, connectedPlayers,
                 activeConnections, userRooms, sockUser, sockOpen, sockRooms,
                 emitted, nextRoomId, now>>

\* Room.find({ $or: [{ isActive: false }, { lastActivity: { $lt: cutoffTime } }] })
\* for the cutoffTime computed at the time cutoff: lastActivity was older
\* than ROOM_TIMEOUT when the method was called
InactiveRooms(cutoff) ==
  LET Test(d) == ~d.isActive \/ d.lastActivity + TicksToExpire <= cutoff
  IN SelectSeq(rooms, Test)

cleanupInactiveRooms_find(k) ==
  /\ k \in DOMAIN ops
  /\ ops[k].kind = "sweep" /\ ops[k].pc = "findOne"
  /\ ops' = SetOp(k, IF InactiveRooms(ops[k].cutoff) = <<>>
                     THEN Finish(ops[k], "true")
                     ELSE [ops[k] EXCEPT !.pc = "sweepSave",
                                         !.found = InactiveRooms(ops[k].cutoff)])
  /\ UNCHANGED <<rooms, events, accounts, activeRooms, connectedPlayers,
                 activeConnections, userRooms, sockUser, sockOpen, sockRooms,
                 emitted, nextRoomId, now>>

\* One turn of the loop: room.isActive = false, room.save(), and the two
\* cache deletes.  The save sends isActive only for a room read as active.
cleanupInactiveRooms_save(k) ==
  /\ k \in DOMAIN ops
  /\ ops[k].kind = "sweep" /\ ops[k].pc = "sweepSave"
  /\ LET o == ops[k]
         room == Head(o.found)
         stored == Stored(room.roomId)
     IN /\ rooms' = IF room.isActive
                    THEN WriteRoom([stored EXCEPT !.isActive = FALSE])
                    ELSE rooms
        /\ activeRooms' = [activeRooms EXCEPT ![room.roomId] = NoDoc]
        /\ connectedPlayers' = [connectedPlayers EXCEPT ![room.roomId] = {}]
        /\ ops' = SetOp(k, IF Tail(o.found) = <<>>
                           THEN [Finish(o, "true") EXCEPT !.found = <<>>]
                           ELSE [o EXCEPT !.found = Tail(@)])
  /\ UNCHANGED <<events, accounts, activeConnections, userRooms, sockUser,
                 sockOpen, sockRooms, emitted, nextRoomId, now>>

-----------------------------------------------------------------------------
(* routes/admin.js: the requireAdmin middleware and                        *)
(* POST /admin/rooms/:roomId/close.  The AdminLog collection the route     *)
(* appends to is not part of the session state and is not represented.     *)
(* The result of a request is "true" for the answer 200 or 201 and "false" *)
(* for an answer 4xx.                                                      *)

\* requireAdmin up to its await, for the request o whose token was issued
\* for the uid o.user: 401 at once for a request without a token (NoUser),
\* else User.findOne({ uid: decoded.uid }) is awaited
requireAdmin_token(o) ==
  IF o.user = NoUser THEN Finish(o, "false") ELSE [o EXCEPT !.pc = "requireAdmin"]

\* requireAdmin when User.findOne resolves: 403 unless the document is an
\* administrator, else next(): Room.findOne of the close route,
\* User.findOne of the two user routes; create-admin answers 400 to
\* !username || !password before it
requireAdmin(k) ==
  /\ k \in DOMAIN ops
  /\ ops[k].pc = "requireAdmin"
  /\ LET o == ops[k]
         user == accounts[o.user]
     IN ops' = SetOp(k,
          IF user = NoAccount THEN Finish(o, "false")
          ELSE IF ~user.isAdmin THEN Finish(o, "false")
          ELSE IF o.kind = "create_admin" /\ (o.username = "" \/ o.password = "")
          THEN Finish(o, "false")
          ELSE IF o.kind = "close" THEN [o EXCEPT !.pc = "findOne"]
          ELSE [o EXCEPT !.pc = "User.findOne"])
  /\ UNCHANGED <<rooms, events, accounts, activeRooms, connectedPlayers,
                 activeConnections, userRooms, sockUser, sockOpen, sockRooms,
                 emitted, nextRoomId, now>>

\* POST /admin/rooms/:roomId/close with a token issued for the uid admin
on_admin_close(admin, rid, max) ==
  /\ Len(ops) < max
  /\ ops' = Append(ops, requireAdmin_token(NewOp("close", NoSock, admin, rid, NoArg)))
  /\ UNCHANGED <<rooms, events, accounts, activeRooms, connectedPlayers,
                 activeConnections, userRooms, sockUser, sockOpen, sockRooms,
                 emitted, nextRoomId, now>>

\* Room.findOne({ roomId }), the 404 answer or room.isActive = false
admin_close_findOne(k) ==
  /\ k \in DOMAIN ops
  /\ ops[k].kind = "close" /\ ops[k].pc = "findOne"
  /\ LET o == ops[k]
         room == Stored(o.room)
     IN ops' = SetOp(k, IF room = NoDoc
                        THEN Finish(o, "false")
                        ELSE [o EXCEPT !.pc = "save",
                                       !.mods = IF room.isActive THEN {"isActive"} ELSE {},
                                       !.doc = [room EXCEPT !.isActive = FALSE]])
  /\ UNCHANGED <<rooms, events, accounts, activeRooms, connectedPlayers,
                 activeConnections, userRooms, sockUser, sockOpen, sockRooms,
                 emitted, nextRoomId, now>>

\* room.save(): sends isActive when it was modified, lastActivity never
admin_close_save(k) ==
  /\ k \in DOMAIN ops
  /\ ops[k].kind = "close" /\ ops[k].pc = "save"
  /\ LET o == ops[k]
     IN /\ rooms' = IF "isActive" \in o.mods
                    THEN WriteRoom([Stored(o.room) EXCEPT !.isActive = FALSE])
                    ELSE rooms
        /\ ops' = SetOp(k, [o EXCEPT !.pc = "adminLog", !.doc = NoDoc])
  /\ UNCHANGED <<events, accounts, activeRooms, connectedPlayers,
                 activeConnections, userRooms, sockUser, sockOpen, sockRooms,
                 emitted, nextRoomId, now>>

\* new AdminLog({...}).save() and the response
admin_close_log(k) ==
  /\ k \in DOMAIN ops
  /\ ops[k].kind = "close" /\ ops[k].pc = "adminLog"
  /\ ops' = SetOp(k, Finish(ops[k], "true"))
  /\ UNCHANGED <<rooms, events, accounts, activeRooms, connectedPlayers,
                 activeConnections, userRooms, sockUser, sockOpen, sockRooms,
                 emitted, nextRoomId, now>>

-----------------------------------------------------------------------------
(* The routes that write the User collection: POST /api/users of           *)
(* routes/api.js, and POST /admin/login, DELETE /admin/users/:uid and      *)
(* POST /admin/create-admin of routes/admin.js.  Each is an async handler  *)
(* and is recorded in `ops` like a socket handler.  The AdminLog           *)
(* collection is not represented; a login with stored credentials and the  *)
(* GET routes write nothing else and are left out.  The result of a        *)
(* request is "false" for an answer 4xx or 5xx.                            *)

\* An HTTP request: admin is the uid of the token it carries, uid the
\* :uid parameter or the uid generated for a new document
HttpOp(kind, pc, admin, username, password, uid) ==
  [NewOp(kind, NoSock, admin, NoRoomId, NoArg)
     EXCEPT !.pc = pc, !.username = username, !.password = password, !.uid = uid]

\* A value the uid default can generate: `user_<time>_<random>` is an
\* identity that no document, socket, request or handler of the server has
\* named so far
Fresh(u) ==
  /\ accounts[u] = NoAccount
  /\ activeConnections[u] = NoSock
  /\ userRooms[u] = NoRoomId
  /\ \A s \in AllSockets : sockUser[s] # u
  /\ \A i \in DOMAIN rooms : u \notin PlayerIds(rooms[i])
  /\ \A k \in DOMAIN ops : ops[k].user # u /\ ops[k].uid # u

\* POST /api/users: 400 for a request without username
on_post_users(username, password, max) ==
  /\ Len(ops) < max
  /\ ops' = Append(ops,
       IF username = ""
       THEN Finish(HttpOp("post_users", "done", NoUser, username, password, NoUser),
                   "false")
       ELSE HttpOp("post_users", "User.findOne", NoUser, username, password, NoUser))
  /\ UNCHANGED <<rooms, events, accounts, activeRooms, connectedPlayers,
                 activeConnections, userRooms, sockUser, sockOpen, sockRooms,
                 emitted, nextRoomId, now>>

\* User.findOne({ username }): 400 if it exists, else new User({ username }),
\* whose uid default generates u, and bcrypt.hash if a password was given
post_users_findOne(k, u) ==
  /\ k \in DOMAIN ops
  /\ ops[k].kind = "post_users" /\ ops[k].pc = "User.findOne"
  /\ \/ /\ UsernameTaken(ops[k].username)
        /\ ops' = SetOp(k, Finish(ops[k], "false"))
     \/ /\ ~UsernameTaken(ops[k].username)
        /\ Fresh(u)
        /\ ops' = SetOp(k, [ops[k] EXCEPT
                              !.pc = IF ops[k].password # "" THEN "bcrypt.hash"
                                     ELSE "User.save",
                              !.uid = u])
  /\ UNCHANGED <<rooms, events, accounts, activeRooms, connectedPlayers,
                 activeConnections, userRooms, sockUser, sockOpen, sockRooms,
                 emitted, nextRoomId, now>>

\* user.passwordHash = await bcrypt.hash(password, ...)
post_users_hash(k) ==
  /\ k \in DOMAIN ops
  /\ ops[k].kind = "post_users" /\ ops[k].pc = "bcrypt.hash"
  /\ ops' = SetOp(k, [ops[k] EXCEPT !.pc = "User.save"])
  /\ UNCHANGED <<rooms, events, accounts, activeRooms, connectedPlayers,
                 activeConnections, userRooms, sockUser, sockOpen, sockRooms,
                 emitted, nextRoomId, now>>

\* user.save() and the 201 answer
post_users_save(k) ==
  /\ k \in DOMAIN ops
  /\ ops[k].kind = "post_users" /\ ops[k].pc = "User.save"
  /\ accounts' = [accounts EXCEPT ![ops[k].uid] =
                    NewUser(ops[k].uid, ops[k].username, FALSE)]
  /\ ops' = SetOp(k, Finish(ops[k], "true"))
  /\ UNCHANGED <<rooms, events, activeRooms, connectedPlayers,
                 activeConnections, userRooms, sockUser, sockOpen, sockRooms,
                 emitted, nextRoomId, now>>

\* POST /admin/login with config.ADMIN_USERNAME and config.ADMIN_PASSWORD
on_admin_login(max) ==
  /\ Len(ops) < max
  /\ ops' = Append(ops, HttpOp("admin_login", "User.findOne", NoUser,
                               ADMIN_USERNAME, "", NoUser))
  /\ UNCHANGED <<rooms, events, accounts, activeRooms, connectedPlayers,
                 activeConnections, userRooms, sockUser, sockOpen, sockRooms,
                 emitted, nextRoomId, now>>

\* User.findOne({ username: config.ADMIN_USERNAME }): the document found is
\* used as it is (the token is signed for its uid), else bcrypt.hash is
\* awaited
admin_login_findOne(k) ==
  /\ k \in DOMAIN ops
  /\ ops[k].kind = "admin_login" /\ ops[k].pc = "User.findOne"
  /\ ops' = SetOp(k, IF UsernameTaken(ADMIN_USERNAME)
                     THEN [ops[k] EXCEPT !.pc = "adminLog",
                                         !.uid = UidOf(ADMIN_USERNAME)]
                     ELSE [ops[k] EXCEPT !.pc = "bcrypt.hash"])
  /\ UNCHANGED <<rooms, events, accounts, activeRooms, connectedPlayers,
                 activeConnections, userRooms, sockUser, sockOpen, sockRooms,
                 emitted, nextRoomId, now>>

\* bcrypt.hash resolves: new User({ username, passwordHash, isAdmin: true }),
\* whose uid default generates u
admin_login_hash(k, u) ==
  /\ k \in DOMAIN ops
  /\ ops[k].kind = "admin_login" /\ ops[k].pc = "bcrypt.hash"
  /\ Fresh(u)
  /\ ops' = SetOp(k, [ops[k] EXCEPT !.pc = "User.save", !.uid = u])
  /\ UNCHANGED <<rooms, events, accounts, activeRooms, connectedPlayers,
                 activeConnections, userRooms, sockUser, sockOpen, sockRooms,
                 emitted, nextRoomId, now>>

\* adminUser.save() and jwt.sign for its uid
admin_login_save(k) ==
  /\ k \in DOMAIN ops
  /\ ops[k].kind = "admin_login" /\ ops[k].pc = "User.save"
  /\ accounts' = [accounts EXCEPT ![ops[k].uid] =
                    NewUser(ops[k].uid, ADMIN_USERNAME, TRUE)]
  /\ ops' = SetOp(k, [ops[k] EXCEPT !.pc = "adminLog"])
  /\ UNCHANGED <<rooms, events, activeRooms, connectedPlayers,
                 activeConnections, userRooms, sockUser, sockOpen, sockRooms,
                 emitted, nextRoomId, now>>

\* DELETE /admin/users/:uid with a token issued for the uid admin
on_delete_user(admin, uid, max) ==
  /\ Len(ops) < max
  /\ ops' = Append(ops, requireAdmin_token(
                           HttpOp("delete_user", "requireAdmin", admin, "", "", uid)))
  /\ UNCHANGED <<rooms, events, accounts, activeRooms, connectedPlayers,
                 activeConnections, userRooms, sockUser, sockOpen, sockRooms,
                 emitted, nextRoomId, now>>

\* POST /admin/create-admin with a token issued for the uid admin
on_create_admin(admin, username, password, max) ==
  /\ Len(ops) < max
  /\ ops' = Append(ops, requireAdmin_token(
                           HttpOp("create_admin", "requireAdmin", admin, username,
                                  password, NoUser)))
  /\ UNCHANGED <<rooms, events, accounts, activeRooms, connectedPlayers,
                 activeConnections, userRooms, sockUser, sockOpen, sockRooms,
                 emitted, nextRoomId, now>>

\* User.findOne({ uid }): 404 for no document, 403 for another administrator
delete_user_findOne(k) ==
  /\ k \in DOMAIN ops
  /\ ops[k].kind = "delete_user" /\ ops[k].pc = "User.findOne"
  /\ LET o == ops[k]
         user == accounts[o.uid]
     IN ops' = SetOp(k,
          IF user = NoAccount THEN Finish(o, "false")
          ELSE IF user.isAdmin /\ o.uid # o.user THEN Finish(o, "false")
          ELSE [o EXCEPT !.pc = "User.deleteOne"])
  /\ UNCHANGED <<rooms, events, accounts, activeRooms, connectedPlayers,
                 activeConnections, userRooms, sockUser, sockOpen, sockRooms,
                 emitted, nextRoomId, now>>

\* User.deleteOne({ uid })
delete_user_deleteOne(k) ==
  /\ k \in DOMAIN ops
  /\ ops[k].kind = "delete_user" /\ ops[k].pc = "User.deleteOne"
  /\ accounts' = [accounts EXCEPT ![ops[k].uid] = NoAccount]
  /\ ops' = SetOp(k, [ops[k] EXCEPT !.pc = "adminLog"])
  /\ UNCHANGED <<rooms, events, activeRooms, connectedPlayers,
                 activeConnections, userRooms, sockUser, sockOpen, sockRooms,
                 emitted, nextRoomId, now>>

\* User.findOne({ username }): 400 if it exists, else bcrypt.hash is awaited
create_admin_findOne(k) ==
  /\ k \in DOMAIN ops
  /\ ops[k].kind = "create_admin" /\ ops[k].pc = "User.findOne"
  /\ ops' = SetOp(k, IF UsernameTaken(ops[k].username)
                     THEN Finish(ops[k], "false")
                     ELSE [ops[k] EXCEPT !.pc = "bcrypt.hash"])
  /\ UNCHANGED <<rooms, events, accounts, activeRooms, connectedPlayers,
                 activeConnections, userRooms, sockUser, sockOpen, sockRooms,
                 emitted, nextRoomId, now>>

\* bcrypt.hash resolves: new User({ username, passwordHash, isAdmin: true }),
\* whose uid default generates u
create_admin_hash(k, u) ==
  /\ k \in DOMAIN ops
  /\ ops[k].kind = "create_admin" /\ ops[k].pc = "bcrypt.hash"
  /\ Fresh(u)
  /\ ops' = SetOp(k, [ops[k] EXCEPT !.pc = "User.save", !.uid = u])
  /\ UNCHANGED <<rooms, events, accounts, activeRooms, connectedPlayers,
                 activeConnections, userRooms, sockUser, sockOpen, sockRooms,
                 emitted, nextRoomId, now>>

\* adminUser.save()
create_admin_save(k) ==
  /\ k \in DOMAIN ops
  /\ ops[k].kind = "create_admin" /\ ops[k].pc = "User.save"
  /\ accounts' = [accounts EXCEPT ![ops[k].uid] =
                    NewUser(ops[k].uid, ops[k].username, TRUE)]
  /\ ops' = SetOp(k, [ops[k] EXCEPT !.pc = "adminLog"])
  /\ UNCHANGED <<rooms, events, activeRooms, connectedPlayers,
                 activeConnections, userRooms, sockUser, sockOpen, sockRooms,
                 emitted, nextRoomId, now>>

\* new AdminLog({...}).save() and the answer of the three admin routes
admin_users_log(k) ==
  /\ k \in DOMAIN ops
  /\ ops[k].kind \in {"admin_login", "delete_user", "create_admin"}
  /\ ops[k].pc = "adminLog"
  /\ ops' = SetOp(k, Finish(ops[k], "true"))
  /\ UNCHANGED <<rooms, events, accounts, activeRooms, connectedPlayers,
                 activeConnections, userRooms, sockUser, sockOpen, sockRooms,
                 emitted, nextRoomId, now>>

\* A write of a route rejects: the catch block of the route answers 500.

\* user.save() rejects
post_users_saveFails(k) ==
  /\ k \in DOMAIN ops
  /\ ops[k].kind = "post_users" /\ ops[k].pc = "User.save"
  /\ ops' = SetOp(k, Finish(ops[k], "false"))
  /\ UNCHANGED <<rooms, events, accounts, activeRooms, connectedPlayers,
                 activeConnections, userRooms, sockUser, sockOpen, sockRooms,
                 emitted, nextRoomId, now>>

\* adminUser.save() of the login rejects
admin_login_saveFails(k) ==
  /\ k \in DOMAIN ops
  /\ ops[k].kind = "admin_login" /\ ops[k].pc = "User.save"
  /\ ops' = SetOp(k, Finish(ops[k], "false"))
  /\ UNCHANGED <<rooms, events, accounts, activeRooms, connectedPlayers,
                 activeConnections, userRooms, sockUser, sockOpen, sockRooms,
                 emitted, nextRoomId, now>>

\* User.deleteOne() rejects
delete_user_deleteOneFails(k) ==
  /\ k \in DOMAIN ops
  /\ ops[k].kind = "delete_user" /\ ops[k].pc = "User.deleteOne"
  /\ ops' = SetOp(k, Finish(ops[k], "false"))
  /\ UNCHANGED <<rooms, events, accounts, activeRooms, connectedPlayers,
                 activeConnections, userRooms, sockUser, sockOpen, sockRooms,
                 emitted, nextRoomId, now>>

\* adminUser.save() of create-admin rejects
create_admin_saveFails(k) ==
  /\ k \in DOMAIN ops
  /\ ops[k].kind = "create_admin" /\ ops[k].pc = "User.save"
  /\ ops' = SetOp(k, Finish(ops[k], "false"))
  /\ UNCHANGED <<rooms, events, accounts, activeRooms, connectedPlayers,
                 activeConnections, userRooms, sockUser, sockOpen, sockRooms,
                 emitted, nextRoomId, now>>

\* new AdminLog({...}).save() rejects, after the write of the User collection
admin_users_logFails(k) ==
  /\ k \in DOMAIN ops
  /\ ops[k].kind \in {"admin_login", "delete_user", "create_admin"} /\ ops[k].pc = "adminLog"
  /\ ops' = SetOp(k, Finish(ops[k], "false"))
  /\ UNCHANGED <<rooms, events, accounts, activeRooms, connectedPlayers,
                 activeConnections, userRooms, sockUser, sockOpen, sockRooms,
                 emitted, nextRoomId, now>>

\* The uids the scenarios let the uid default generate; a uid is generated
\* once, so each request takes the first that is still fresh
GeneratedUids == <<"u2", "u3", "u4">>

NextUid(u) ==
  \E i \in DOMAIN GeneratedUids :
    /\ GeneratedUids[i] = u
    /\ Fresh(u)
    /\ \A j \in 1..(i - 1) : ~Fresh(GeneratedUids[j])

\* The uids of the tokens a request can carry.  jwt.sign issues a token for
\* the uid of a stored document at POST /admin/login (default credentials,
\* or the stored credentials of an administrator) and at POST /api/login
\* (the stored credentials of any user); a login with stored credentials
\* writes no Room or User document.  A token outlives its
\* document, and config.JWT_SECRET has a public default, so that a token
\* signed for any uid verifies.  The scenarios send no token, a token for
\* every uid that a document has or that a DELETE /admin/users/:uid has
\* named, and a token for u5, which never has a document.
Tokens ==
  {NoUser, "u5"}
    \cup Users
    \cup {ops[k].uid : k \in {j \in DOMAIN ops : ops[j].kind = "delete_user"}}

-----------------------------------------------------------------------------
(* ConnectionManager.sendPersonalMessage and broadcastToRoom.  No handler  *)
(* of index.js calls them: the scenario "send" below invokes them, as a    *)
(* caller of the methods would.  A call is synchronous and is recorded as  *)
(* done; its result "true" says that it returned without an exception.     *)

Messages == {"ping"}

\* RoomManager.getConnectedPlayers
getConnectedPlayers(roomId) == connectedPlayers[roomId]

\* const socket = this.activeConnections.get(userId); if (socket) ...
PersonalTargets(userId) ==
  IF activeConnections[userId] # NoSock THEN {activeConnections[userId]} ELSE {}

\* a broadcast whose loop is ended by the first occupant without a socket
BroadcastTargets_AllOrNone(roomId, excludeUser) ==
  IF \E userId \in getConnectedPlayers(roomId) \ {excludeUser} :
       PersonalTargets(userId) = {}
  THEN {}
  ELSE UNION {PersonalTargets(userId) :
                userId \in getConnectedPlayers(roomId) \ {excludeUser}}

\* connectedPlayers.forEach(userId => { if excluded return; send })
BroadcastTargets(roomId, excludeUser) ==
  UNION {PersonalTargets(userId) :
           userId \in getConnectedPlayers(roomId) \ {excludeUser}}

sendPersonalMessage(message, userId, max) ==
  /\ Len(ops) < max
  /\ ops' = Append(ops, Finish(NewOp("send", NoSock, userId, NoRoomId, NoArg), "true"))
  /\ emitted' = emitted \cup Deliver(PersonalTargets(userId), "message", NoRoomId,
                                     Str(message))
  /\ UNCHANGED <<rooms, events, accounts, activeRooms, connectedPlayers,
                 activeConnections, userRooms, sockUser, sockOpen, sockRooms,
                 nextRoomId, now>>

broadcastToRoom(message, roomId, excludeUser, max) ==
  /\ Len(ops) < max
  /\ ops' = Append(ops, Finish(NewOp("broadcast", NoSock, excludeUser, roomId, NoArg),
                               "true"))
  /\ emitted' = emitted \cup Deliver(BroadcastTargets(roomId, excludeUser), "message",
                                     roomId, Str(message))
  /\ UNCHANGED <<rooms, events, accounts, activeRooms, connectedPlayers,
                 activeConnections, userRooms, sockUser, sockOpen, sockRooms,
                 nextRoomId, now>>

-----------------------------------------------------------------------------
(* A request on a socket that has not authenticated (with a payload, where *)
(* its handler takes one).  create_room and join_room test socket.userId,  *)
(* emit 'error' and return; the other handlers (get_room_state included)   *)
(* look up userRooms.get(undefined), find no room and return.  No          *)
(* RoomManager method is called: the invocation is recorded as done.       *)

RequestKinds == {"create", "join", "leave", "move", "task", "house", "state"}

on_unauthenticated(s, kind, max) ==
  /\ s \in sockOpen
  /\ sockUser[s] = NoUser
  /\ Len(ops) < max
  /\ ops' = Append(ops, Finish(NewOp(kind, s, NoUser, NoRoomId, NoArg), "none"))
  /\ emitted' = IF kind \in {"create", "join"}
                THEN emitted \cup Deliver({s}, "error", NoRoomId,
                                          Str("Not authenticated"))
                ELSE emitted
  /\ UNCHANGED <<rooms, events, accounts, activeRooms, connectedPlayers,
                 activeConnections, userRooms, sockUser, sockOpen, sockRooms,
                 nextRoomId, now>>

\* A request whose payload is an object that lacks the field its handler
\* tests: authenticate without userId and join_room without roomId emit
\* 'error' and return, task_complete without taskId and change_house
\* without houseId return.  No RoomManager method is called: the invocation
\* is recorded as done.
MissingFieldKinds == {"authenticate", "join", "task", "house"}

on_missing_field(s, kind, max) ==
  /\ s \in sockOpen
  /\ kind = "authenticate" \/ sockUser[s] # NoUser
  /\ Len(ops) < max
  /\ ops' = Append(ops, Finish(NewOp(kind, s, sockUser[s], NoRoomId, NoArg), "none"))
  /\ emitted' =
       IF kind = "authenticate"
       THEN emitted \cup Deliver({s}, "error", NoRoomId, Str("User ID required"))
       ELSE IF kind = "join"
       THEN emitted \cup Deliver({s}, "error", NoRoomId, Str("Room ID required"))
       ELSE emitted
  /\ UNCHANGED <<rooms, events, accounts, activeRooms, connectedPlayers,
                 activeConnections, userRooms, sockUser, sockOpen, sockRooms,
                 nextRoomId, now>>

\* The events whose handler takes a payload
NoPayloadKinds == {"authenticate", "create", "join", "move", "task", "house"}

\* The handlers that destructure `data` outside any try block: authenticate
\* in its first statement, task_complete and change_house in their second,
\* whether or not the socket has authenticated or is in a room
ThrowingKinds == {"authenticate", "task", "house"}

\* userRooms.get(socket.userId)
RoomOfSocket(s) == IF sockUser[s] = NoUser THEN NoRoomId ELSE userRooms[sockUser[s]]

\* A handler that the end of the process finds suspended never resumes
Abandoned(o) ==
  IF o.pc = "done" THEN o
  ELSE [o EXCEPT !.pc = "exit", !.doc = NoDoc, !.found = <<>>]

\* An async handler throws outside any try block: its promise rejects, no
\* one handles the rejection, and the runtime (Node 18, which registers no
\* 'unhandledRejection' listener here) ends the process.  Every map of the
\* process and every transport is gone, suspended handlers never resume;
\* the collections stay as they are.  A write that a suspended handler had
\* already sent may still be applied by the store: that outcome is the
\* behaviour in which the write's step comes before this one.
process_exit(thrown) ==
  /\ ops' = Append([k \in DOMAIN ops |-> Abandoned(ops[k])],
                   [thrown EXCEPT !.pc = "thrown"])
  /\ activeRooms' = [r \in RoomIdSet |-> NoDoc]
  /\ connectedPlayers' = [r \in RoomIdSet |-> {}]
  /\ activeConnections' = [u \in AllUsers |-> NoSock]
  /\ userRooms' = [u \in AllUsers |-> NoRoomId]
  /\ sockUser' = [t \in AllSockets |-> NoUser]
  /\ sockOpen' = {}
  /\ sockRooms' = [t \in AllSockets |-> {}]
  /\ UNCHANGED <<rooms, events, accounts, emitted, nextRoomId, now>>

\* A request without payload (data is undefined).  `const { ... } = data`
\* throws a TypeError: outside a try block it ends the process; inside the
\* try of create_room and join_room it is caught and answered with 'error',
\* after the test of socket.userId; inside the try of player_move, which is
\* entered only for a socket in a room, it is caught and logged.
on_no_payload(s, kind, max) ==
  /\ s \in sockOpen
  /\ Len(ops) < max
  /\ LET o == NewOp(kind, s, sockUser[s], RoomOfSocket(s), NoArg)
     IN IF kind \in ThrowingKinds
        THEN process_exit(o)
        ELSE /\ ops' = Append(ops, Finish(o, IF kind = "move" THEN "none" ELSE "false"))
             /\ emitted' =
                  IF kind = "move" THEN emitted
                  ELSE emitted \cup Deliver({s}, "error", NoRoomId,
                         Str(IF sockUser[s] = NoUser THEN "Not authenticated"
                             ELSE IF kind = "create" THEN "Failed to create room"
                             ELSE "Failed to join room"))
             /\ UNCHANGED <<rooms, events, accounts, activeRooms, connectedPlayers,
                            activeConnections, userRooms, sockUser, sockOpen,
                            sockRooms, nextRoomId, now>>

-----------------------------------------------------------------------------
(* Store failures.  room.save() or User.updateOne() rejects (the store is  *)
(* unreachable, a write is refused): the catch block of the RoomManager    *)
(* method returns its failure result.  gameEvent.save() rejects: the catch *)
(* block of logGameEvent swallows the error and the method goes on.        *)

createRoom_saveFails(k) ==
  /\ k \in DOMAIN ops
  /\ ops[k].kind = "create" /\ ops[k].pc = "save"
  /\ ops' = SetOp(k, Finish(ops[k], "false"))
  /\ emitted' = emitted \cup Deliver({ops[k].sock}, "error", NoRoomId,
                                     Str("Failed to create room"))
  /\ UNCHANGED <<rooms, events, accounts, activeRooms, connectedPlayers,
                 activeConnections, userRooms, sockUser, sockOpen, sockRooms,
                 nextRoomId, now>>

\* a joinRoom that updates its caches before room.save() has resolved
joinRoom_saveFails_CacheFirst(k) ==
  /\ k \in DOMAIN ops
  /\ ops[k].kind = "join" /\ ops[k].pc = "save"
  /\ JoinFailed(k, ops[k])
  /\ activeRooms' = [activeRooms EXCEPT ![ops[k].room] = ops[k].doc]
  /\ connectedPlayers' = [connectedPlayers EXCEPT ![ops[k].room] = @ \cup {ops[k].user}]
  /\ UNCHANGED <<rooms, events, accounts, activeConnections, userRooms,
                 sockUser, sockOpen, sockRooms, nextRoomId, now>>

joinRoom_saveFails(k) ==
  /\ k \in DOMAIN ops
  /\ ops[k].kind = "join" /\ ops[k].pc = "save"
  /\ JoinFailed(k, ops[k])
  /\ UNCHANGED <<rooms, events, accounts, activeRooms, connectedPlayers,
                 activeConnections, userRooms, sockUser, sockOpen, sockRooms,
                 nextRoomId, now>>

leaveRoom_saveFails(k) ==
  /\ k \in DOMAIN ops
  /\ ops[k].kind \in {"leave", "disconnect"} /\ ops[k].pc = "save"
  /\ LeftTail(k, ops[k], FALSE)
  /\ UNCHANGED <<rooms, events, accounts, activeRooms, connectedPlayers,
                 sockUser, sockOpen, nextRoomId, now>>

updatePlayerPosition_saveFails(k) ==
  /\ k \in DOMAIN ops
  /\ ops[k].kind = "move" /\ ops[k].pc = "save"
  /\ ops' = SetOp(k, Finish(ops[k], "false"))
  /\ UNCHANGED <<rooms, events, accounts, activeRooms, connectedPlayers,
                 activeConnections, userRooms, sockUser, sockOpen, sockRooms,
                 emitted, nextRoomId, now>>

completeTask_saveFails(k) ==
  /\ k \in DOMAIN ops
  /\ ops[k].kind = "task" /\ ops[k].pc = "save"
  /\ ops' = SetOp(k, Finish(ops[k], "false"))
  /\ UNCHANGED <<rooms, events, accounts, activeRooms, connectedPlayers,
                 activeConnections, userRooms, sockUser, sockOpen, sockRooms,
                 emitted, nextRoomId, now>>

completeTask_updateOneFails(k) ==
  /\ k \in DOMAIN ops
  /\ ops[k].kind = "task" /\ ops[k].pc = "updateOne"
  /\ ops' = SetOp(k, Finish(ops[k], "false"))
  /\ UNCHANGED <<rooms, events, accounts, activeRooms, connectedPlayers,
                 activeConnections, userRooms, sockUser, sockOpen, sockRooms,
                 emitted, nextRoomId, now>>

changeHouse_saveFails(k) ==
  /\ k \in DOMAIN ops
  /\ ops[k].kind = "house" /\ ops[k].pc = "save"
  /\ ops' = SetOp(k, Finish(ops[k], "false"))
  /\ UNCHANGED <<rooms, events, accounts, activeRooms, connectedPlayers,
                 activeConnections, userRooms, sockUser, sockOpen, sockRooms,
                 emitted, nextRoomId, now>>

createRoom_logFails(k) ==
  /\ k \in DOMAIN ops
  /\ ops[k].kind = "create" /\ ops[k].pc = "log"
  /\ LET o == ops[k]
     IN /\ ops' = SetOp(k, [o EXCEPT !.pc = "getRoomState", !.res = "true"])
        /\ CreatedTail(o, o.room)
  /\ UNCHANGED <<rooms, events, accounts, activeRooms, connectedPlayers,
                 activeConnections, sockUser, sockOpen, nextRoomId, now>>

\* a logGameEvent without its try/catch: the error reaches joinRoom's catch
joinRoom_logFails_Throws(k) ==
  /\ k \in DOMAIN ops
  /\ ops[k].kind = "join" /\ ops[k].pc = "log"
  /\ JoinFailed(k, ops[k])
  /\ UNCHANGED <<rooms, events, accounts, activeRooms, connectedPlayers,
                 activeConnections, userRooms, sockUser, sockOpen, sockRooms,
                 nextRoomId, now>>

joinRoom_logFails(k) ==
  /\ k \in DOMAIN ops
  /\ ops[k].kind = "join" /\ ops[k].pc = "log"
  /\ LET o == ops[k]
     IN /\ ops' = SetOp(k, [o EXCEPT !.pc = "getRoomState", !.res = "true"])
        /\ userRooms' = IF sockUser[o.sock] = NoUser THEN userRooms
                        ELSE [userRooms EXCEPT ![sockUser[o.sock]] = o.room]
        /\ sockRooms' = [sockRooms EXCEPT ![o.sock] = @ \cup {o.room}]
        /\ emitted' = emitted \cup
                        Deliver(OthersIn(o.room, o.sock), "player_joined", o.room,
                                Str(sockUser[o.sock]))
  /\ UNCHANGED <<rooms, events, accounts, activeRooms, connectedPlayers,
                 activeConnections, sockUser, sockOpen, nextRoomId, now>>

leaveRoom_logFails(k) ==
  /\ k \in DOMAIN ops
  /\ ops[k].kind \in {"leave", "disconnect"} /\ ops[k].pc = "log"
  /\ LeftTail(k, ops[k], TRUE)
  /\ UNCHANGED <<rooms, events, accounts, activeRooms, connectedPlayers,
                 sockUser, sockOpen, nextRoomId, now>>

completeTask_logFails(k) ==
  /\ k \in DOMAIN ops
  /\ ops[k].kind = "task" /\ ops[k].pc = "log"
  /\ LET o == ops[k]
     IN /\ activeRooms' = [activeRooms EXCEPT ![o.room] = o.doc]
        /\ ops' = SetOp(k, [o EXCEPT !.pc = "checkFloor", !.res = "true",
                                     !.doc = NoDoc])
        /\ emitted' = emitted
             \cup Deliver(AllIn(o.room), "task_completed", o.room,
                          [taskId |-> o.arg.taskId, completedBy |-> sockUser[o.sock]])
  /\ UNCHANGED <<rooms, events, accounts, connectedPlayers, activeConnections,
                 userRooms, sockUser, sockOpen, sockRooms, nextRoomId, now>>

\* logGameEvent of checkFloorCompletion: the method returns allCompleted
checkFloorCompletion_logFails(k) ==
  /\ k \in DOMAIN ops
  /\ ops[k].kind = "task" /\ ops[k].pc = "floorLog"
  /\ LET o == ops[k]
     IN /\ ops' = SetOp(k, [o EXCEPT !.pc = "done", !.floor = "true", !.doc = NoDoc])
        /\ emitted' = emitted
             \cup Deliver(AllIn(o.room), "floor_complete", o.room, Str(""))
  /\ UNCHANGED <<rooms, events, accounts, activeRooms, connectedPlayers,
                 activeConnections, userRooms, sockUser, sockOpen, sockRooms,
                 nextRoomId, now>>

changeHouse_logFails(k) ==
  /\ k \in DOMAIN ops
  /\ ops[k].kind = "house" /\ ops[k].pc = "log"
  /\ LET o == ops[k]
     IN /\ activeRooms' = [activeRooms EXCEPT ![o.room] = o.doc]
        /\ ops' = SetOp(k, [o EXCEPT !.pc = "getRoomState", !.res = "true",
                                     !.doc = NoDoc])
  /\ UNCHANGED <<rooms, events, accounts, connectedPlayers, activeConnections,
                 userRooms, sockUser, sockOpen, sockRooms, emitted, nextRoomId, now>>

-----------------------------------------------------------------------------
(* The server after start-up: empty collections, empty maps, and the       *)
(* sockets of the scenario connected but not yet authenticated.            *)

Init ==
  /\ rooms = <<>>
  /\ events = <<>>
  /\ accounts = [u \in AllUsers |-> NoAccount]
  /\ activeRooms = [r \in RoomIdSet |-> NoDoc]
  /\ connectedPlayers = [r \in RoomIdSet |-> {}]
  /\ activeConnections = [u \in AllUsers |-> NoSock]
  /\ userRooms = [u \in AllUsers |-> NoRoomId]
  /\ sockUser = [s \in AllSockets |-> NoUser]
  /\ sockOpen = {"s0", "s1"}
  /\ sockRooms = [s \in AllSockets |-> {}]
  /\ emitted = {}
  /\ nextRoomId = 1
  /\ now = 0
  /\ ops = <<>>

\* The identity each socket of the scenarios authenticates as
UserOf(s) ==
  CASE s = "s0" -> "h"
    [] s = "s1" -> "u1"
    [] s = "s2" -> "u2"
    [] s = "s3" -> "u3"
    [] s = "s4" -> "u4"
    [] s = "s5" -> "u5"

Next ==
  \/ \E s \in {"s0", "s1"} : authenticate(s, UserOf(s))
  \/ \E s \in {"s0", "s1"} : on_create_room(s, MaxOps)
  \/ \E s \in {"s0", "s1"}, rid \in RoomIdSet : on_join_room(s, rid, MaxOps)
  \/ \E s \in {"s0", "s1"} : on_leave_room(s, MaxOps)
  \/ \E s \in {"s0", "s1"} : on_disconnect(s, MaxOps)
  \/ \E s \in {"s0", "s1"}, p \in Positions : on_player_move(s, p[1], p[2], MaxOps)
  \/ \E s \in {"s0", "s1"}, t \in TaskIds : on_task_complete(s, t, MaxOps)
  \/ \E s \in {"s0", "s1"}, h \in HouseIds : on_change_house(s, h, MaxOps)
  \/ \E s \in {"s0", "s1"} : on_get_room_state(s, MaxOps)
  \/ \E s \in {"s0", "s1"}, kind \in RequestKinds : on_unauthenticated(s, kind, MaxOps)
  \/ \E k \in DOMAIN ops : getRoomState_findOne(k)
  \/ \E k \in DOMAIN ops : getRoomState_find(k)
  \/ \E k \in DOMAIN ops : createRoom_findOne(k)
  \/ \E k \in DOMAIN ops : createRoom_save(k)
  \/ \E k \in DOMAIN ops : createRoom_log(k)
  \/ \E k \in DOMAIN ops : joinRoom_findOne(k)
  \/ \E k \in DOMAIN ops : joinRoom_save(k)
  \/ \E k \in DOMAIN ops : joinRoom_log(k)
  \/ \E k \in DOMAIN ops : leaveRoom_findOne(k)
  \/ \E k \in DOMAIN ops : leaveRoom_save(k)
  \/ \E k \in DOMAIN ops : leaveRoom_log(k)
  \/ \E k \in DOMAIN ops : updatePlayerPosition_findOne(k)
  \/ \E k \in DOMAIN ops : updatePlayerPosition_save(k)
  \/ \E k \in DOMAIN ops : completeTask_findOne(k)
  \/ \E k \in DOMAIN ops : completeTask_save(k)
  \/ \E k \in DOMAIN ops : completeTask_updateOne(k)
  \/ \E k \in DOMAIN ops : completeTask_log(k)
  \/ \E k \in DOMAIN ops : checkFloorCompletion_findOne(k)
  \/ \E k \in DOMAIN ops : checkFloorCompletion_find(k)
  \/ \E k \in DOMAIN ops : checkFloorCompletion_log(k)
  \/ \E k \in DOMAIN ops : changeHouse_findOne(k)
  \/ \E k \in DOMAIN ops : changeHouse_save(k)
  \/ \E k \in DOMAIN ops : changeHouse_log(k)

Spec == Init /\ [][Next]_vars

-----------------------------------------------------------------------------
(* Scenario "join": the host creates a room and five more identities join  *)
(* it.  The requests arrive in the order s0, s1, ..., s5; at most          *)
(* MaxInFlight handlers are suspended at the same time.                    *)

JoinSockets == <<"s0", "s1", "s2", "s3", "s4", "s5">>

InitJoin ==
  /\ rooms = <<>>
  /\ events = <<>>
  /\ accounts = [u \in AllUsers |-> NoAccount]
  /\ activeRooms = [r \in RoomIdSet |-> NoDoc]
  /\ connectedPlayers = [r \in RoomIdSet |-> {}]
  /\ activeConnections = [u \in AllUsers |-> NoSock]
  /\ userRooms = [u \in AllUsers |-> NoRoomId]
  /\ sockUser = [s \in AllSockets |-> NoUser]
  /\ sockOpen = AllSockets
  /\ sockRooms = [s \in AllSockets |-> {}]
  /\ emitted = {}
  /\ nextRoomId = 1
  /\ now = 0
  /\ ops = <<>>

NumInFlight == Cardinality({k \in DOMAIN ops : InFlight(k)})

\* The i-th socket acts when its predecessors have sent their requests
Turn(i) == Len(ops) = i - 1 /\ NumInFlight < MaxInFlight

NextJoin ==
  \/ \E i \in DOMAIN JoinSockets :
       /\ Turn(i) /\ sockUser[JoinSockets[i]] = NoUser
       /\ authenticate(JoinSockets[i], UserOf(JoinSockets[i]))
  \/ Turn(1) /\ on_create_room(JoinSockets[1], MaxOpsJoin)
  \/ \E i \in 2..Len(JoinSockets) :
       Turn(i) /\ on_join_room(JoinSockets[i], 1, MaxOpsJoin)
  \/ \E k \in DOMAIN ops : getRoomState_findOne(k)
  \/ \E k \in DOMAIN ops : getRoomState_find(k)
  \/ \E k \in DOMAIN ops : createRoom_findOne(k)
  \/ \E k \in DOMAIN ops : createRoom_save(k)
  \/ \E k \in DOMAIN ops : createRoom_log(k)
  \/ \E k \in DOMAIN ops : joinRoom_findOne(k)
  \/ \E k \in DOMAIN ops : joinRoom_save(k)
  \/ \E k \in DOMAIN ops : joinRoom_log(k)

SpecJoin == InitJoin /\ [][NextJoin]_vars

-----------------------------------------------------------------------------
(* Scenario "task": one identity creates a room, completes tasks, changes  *)
(* the house and leaves; at most MaxInFlight of its requests overlap.       *)

NextTask ==
  \/ sockUser["s0"] = NoUser /\ authenticate("s0", UserOf("s0"))
  \/ NumInFlight < MaxInFlight /\ on_create_room("s0", MaxOpsTask)
  \/ NumInFlight < MaxInFlight /\ on_leave_room("s0", MaxOpsTask)
  \/ \E t \in TaskIds :
       NumInFlight < MaxInFlight /\ on_task_complete("s0", t, MaxOpsTask)
  \/ \E h \in HouseIds :
       NumInFlight < MaxInFlight /\ on_change_house("s0", h, MaxOpsTask)
  \/ \E k \in DOMAIN ops : getRoomState_findOne(k)
  \/ \E k \in DOMAIN ops : getRoomState_find(k)
  \/ \E k \in DOMAIN ops : createRoom_findOne(k)
  \/ \E k \in DOMAIN ops : createRoom_save(k)
  \/ \E k \in DOMAIN ops : createRoom_log(k)
  \/ \E k \in DOMAIN ops : leaveRoom_findOne(k)
  \/ \E k \in DOMAIN ops : leaveRoom_save(k)
  \/ \E k \in DOMAIN ops : leaveRoom_log(k)
  \/ \E k \in DOMAIN ops : completeTask_findOne(k)
  \/ \E k \in DOMAIN ops : completeTask_save(k)
  \/ \E k \in DOMAIN ops : completeTask_updateOne(k)
  \/ \E k \in DOMAIN ops : completeTask_log(k)
  \/ \E k \in DOMAIN ops : checkFloorCompletion_findOne(k)
  \/ \E k \in DOMAIN ops : checkFloorCompletion_find(k)
  \/ \E k \in DOMAIN ops : checkFloorCompletion_log(k)
  \/ \E k \in DOMAIN ops : changeHouse_findOne(k)
  \/ \E k \in DOMAIN ops : changeHouse_save(k)
  \/ \E k \in DOMAIN ops : changeHouse_log(k)

SpecTask == Init /\ [][NextTask]_vars

-----------------------------------------------------------------------------
(* Scenario "life": the host h creates a room, u1 joins it, both may leave, *)
(* time passes, a caller outside index.js calls cleanupInactiveRooms, and  *)
(* the administrator logs in with the default credentials (a first login   *)
(* stores the administrator document; two first logins may overlap) and    *)
(* asks to close the room, with a token for the uid of a stored document,  *)
(* with a token for a uid without document, or without a token; at most    *)
(* MaxInFlight calls are suspended at the same time.                       *)

NextLife ==
  \/ \E s \in {"s0", "s1"} : sockUser[s] = NoUser /\ authenticate(s, UserOf(s))
  \/ NumInFlight < MaxInFlight /\ on_create_room("s0", MaxOpsLife)
  \/ NumInFlight < MaxInFlight /\ on_join_room("s1", 1, MaxOpsLife)
  \/ \E s \in {"s0", "s1"} : NumInFlight < MaxInFlight /\ on_leave_room(s, MaxOpsLife)
  \/ Elapse
  \/ NumInFlight < MaxInFlight /\ on_sweep(MaxOpsLife)
  \/ NumInFlight < MaxInFlight /\ on_admin_login(MaxOpsLife)
  \/ \E admin \in Tokens :
       NumInFlight < MaxInFlight /\ on_admin_close(admin, 1, MaxOpsLife)
  \/ \E k \in DOMAIN ops : getRoomState_findOne(k)
  \/ \E k \in DOMAIN ops : getRoomState_find(k)
  \/ \E k \in DOMAIN ops : createRoom_findOne(k)
  \/ \E k \in DOMAIN ops : createRoom_save(k)
  \/ \E k \in DOMAIN ops : createRoom_log(k)
  \/ \E k \in DOMAIN ops : joinRoom_findOne(k)
  \/ \E k \in DOMAIN ops : joinRoom_save(k)
  \/ \E k \in DOMAIN ops : joinRoom_log(k)
  \/ \E k \in DOMAIN ops : leaveRoom_findOne(k)
  \/ \E k \in DOMAIN ops : leaveRoom_save(k)
  \/ \E k \in DOMAIN ops : leaveRoom_log(k)
  \/ \E k \in DOMAIN ops : cleanupInactiveRooms_find(k)
  \/ \E k \in DOMAIN ops : cleanupInactiveRooms_save(k)
  \/ \E k \in DOMAIN ops : admin_login_findOne(k)
  \/ \E k \in DOMAIN ops, u \in Range(GeneratedUids) :
       NextUid(u) /\ admin_login_hash(k, u)
  \/ \E k \in DOMAIN ops : admin_login_save(k)
  \/ \E k \in DOMAIN ops : admin_users_log(k)
  \/ \E k \in DOMAIN ops : requireAdmin(k)
  \/ \E k \in DOMAIN ops : admin_close_findOne(k)
  \/ \E k \in DOMAIN ops : admin_close_save(k)
  \/ \E k \in DOMAIN ops : admin_close_log(k)

SpecLife == Init /\ [][NextLife]_vars

-----------------------------------------------------------------------------
(* Scenario "idle": the server as index.js starts it, with the host h and   *)
(* the joiner u1, and time passing.  startServer sets no timer and no       *)
(* handler calls cleanupInactiveRooms, so no step of this scenario is a     *)
(* sweep.  A continuation whose await has resolved is always run by the     *)
(* event loop (weak fairness of the handler steps) and time always passes;  *)
(* participants are free to send nothing.                                   *)

StepsIdle ==
  \/ \E k \in DOMAIN ops : getRoomState_findOne(k)
  \/ \E k \in DOMAIN ops : getRoomState_find(k)
  \/ \E k \in DOMAIN ops : createRoom_findOne(k)
  \/ \E k \in DOMAIN ops : createRoom_save(k)
  \/ \E k \in DOMAIN ops : createRoom_log(k)
  \/ \E k \in DOMAIN ops : joinRoom_findOne(k)
  \/ \E k \in DOMAIN ops : joinRoom_save(k)
  \/ \E k \in DOMAIN ops : joinRoom_log(k)
  \/ \E k \in DOMAIN ops : leaveRoom_findOne(k)
  \/ \E k \in DOMAIN ops : leaveRoom_save(k)
  \/ \E k \in DOMAIN ops : leaveRoom_log(k)

NextIdle ==
  \/ \E s \in {"s0", "s1"} : sockUser[s] = NoUser /\ authenticate(s, UserOf(s))
  \/ NumInFlight < MaxInFlight /\ on_create_room("s0", MaxOpsIdle)
  \/ NumInFlight < MaxInFlight /\ on_join_room("s1", 1, MaxOpsIdle)
  \/ \E s \in {"s0", "s1"} : NumInFlight < MaxInFlight /\ on_leave_room(s, MaxOpsIdle)
  \/ Elapse
  \/ StepsIdle

SpecIdle ==
  Init /\ [][NextIdle]_vars /\ WF_vars(StepsIdle) /\ WF_vars(Elapse)

-----------------------------------------------------------------------------
(* Scenario "gone": the host h creates a room, u1 joins it, and either of  *)
(* them leaves or loses its transport; at most MaxInFlight handlers        *)
(* overlap.                                                                *)

NextGone ==
  \/ \E s \in {"s0", "s1"} : sockUser[s] = NoUser /\ authenticate(s, UserOf(s))
  \/ NumInFlight < MaxInFlight /\ on_create_room("s0", MaxOpsGone)
  \/ NumInFlight < MaxInFlight /\ on_join_room("s1", 1, MaxOpsGone)
  \/ \E s \in {"s0", "s1"} : NumInFlight < MaxInFlight /\ on_leave_room(s, MaxOpsGone)
  \/ \E s \in {"s0", "s1"} : NumInFlight < MaxInFlight /\ on_disconnect(s, MaxOpsGone)
  \/ \E k \in DOMAIN ops : getRoomState_findOne(k)
  \/ \E k \in DOMAIN ops : getRoomState_find(k)
  \/ \E k \in DOMAIN ops : createRoom_findOne(k)
  \/ \E k \in DOMAIN ops : createRoom_save(k)
  \/ \E k \in DOMAIN ops : createRoom_log(k)
  \/ \E k \in DOMAIN ops : joinRoom_findOne(k)
  \/ \E k \in DOMAIN ops : joinRoom_save(k)
  \/ \E k \in DOMAIN ops : joinRoom_log(k)
  \/ \E k \in DOMAIN ops : leaveRoom_findOne(k)
  \/ \E k \in DOMAIN ops : leaveRoom_save(k)
  \/ \E k \in DOMAIN ops : leaveRoom_log(k)

SpecGone == Init /\ [][NextGone]_vars

-----------------------------------------------------------------------------
(* Scenario "rebind": the identity h authenticates on the socket s0 and on *)
(* the socket s1; either socket creates the room of h or changes its       *)
(* house.                                                                  *)

NextRebind ==
  \/ \E s \in {"s0", "s1"} : authenticate(s, "h")
  \/ \E s \in {"s0", "s1"} : NumInFlight < MaxInFlight /\ on_create_room(s, MaxOpsRebind)
  \/ \E s \in {"s0", "s1"}, h \in HouseIds :
       NumInFlight < MaxInFlight /\ on_change_house(s, h, MaxOpsRebind)
  \/ \E k \in DOMAIN ops : getRoomState_findOne(k)
  \/ \E k \in DOMAIN ops : getRoomState_find(k)
  \/ \E k \in DOMAIN ops : createRoom_findOne(k)
  \/ \E k \in DOMAIN ops : createRoom_save(k)
  \/ \E k \in DOMAIN ops : createRoom_log(k)
  \/ \E k \in DOMAIN ops : changeHouse_findOne(k)
  \/ \E k \in DOMAIN ops : changeHouse_save(k)
  \/ \E k \in DOMAIN ops : changeHouse_log(k)

SpecRebind == Init /\ [][NextRebind]_vars

-----------------------------------------------------------------------------
(* Scenario "left": the host h creates a room and moves in it, u1 joins    *)
(* the room, possibly more than once, and leaves it.                       *)

NextLeft ==
  \/ \E s \in {"s0", "s1"} : sockUser[s] = NoUser /\ authenticate(s, UserOf(s))
  \/ NumInFlight < MaxInFlight /\ on_create_room("s0", MaxOpsLeft)
  \/ NumInFlight < MaxInFlight /\ on_join_room("s1", 1, MaxOpsLeft)
  \/ NumInFlight < MaxInFlight /\ on_leave_room("s1", MaxOpsLeft)
  \/ NumInFlight < MaxInFlight /\ on_player_move("s0", 7, 9, MaxOpsLeft)
  \/ \E k \in DOMAIN ops : getRoomState_findOne(k)
  \/ \E k \in DOMAIN ops : getRoomState_find(k)
  \/ \E k \in DOMAIN ops : createRoom_findOne(k)
  \/ \E k \in DOMAIN ops : createRoom_save(k)
  \/ \E k \in DOMAIN ops : createRoom_log(k)
  \/ \E k \in DOMAIN ops : joinRoom_findOne(k)
  \/ \E k \in DOMAIN ops : joinRoom_save(k)
  \/ \E k \in DOMAIN ops : joinRoom_log(k)
  \/ \E k \in DOMAIN ops : leaveRoom_findOne(k)
  \/ \E k \in DOMAIN ops : leaveRoom_save(k)
  \/ \E k \in DOMAIN ops : leaveRoom_log(k)
  \/ \E k \in DOMAIN ops : updatePlayerPosition_findOne(k)
  \/ \E k \in DOMAIN ops : updatePlayerPosition_save(k)

SpecLeft == Init /\ [][NextLeft]_vars

-----------------------------------------------------------------------------
(* Scenario "fail": h and u1 each create a room, join the other's room,    *)
(* leave, disconnect, move, complete the tasks A and B and change to the   *)
(* house 2, while any store write and any event append may fail and an     *)
(* authenticate, task_complete or change_house may come without its        *)
(* payload; at most MaxInFlight handlers are suspended at the same time.   *)

NextFail ==
  \/ \E s \in {"s0", "s1"} : sockUser[s] = NoUser /\ authenticate(s, UserOf(s))
  \/ \E s \in {"s0", "s1"} : NumInFlight < MaxInFlight /\ on_create_room(s, MaxOpsFail)
  \/ \E s \in {"s0", "s1"}, rid \in RoomIdSet :
       NumInFlight < MaxInFlight /\ on_join_room(s, rid, MaxOpsFail)
  \/ \E s \in {"s0", "s1"} : NumInFlight < MaxInFlight /\ on_leave_room(s, MaxOpsFail)
  \/ \E s \in {"s0", "s1"} : NumInFlight < MaxInFlight /\ on_disconnect(s, MaxOpsFail)
  \/ \E s \in {"s0", "s1"} : NumInFlight < MaxInFlight /\ on_player_move(s, 7, 9, MaxOpsFail)
  \/ \E s \in {"s0", "s1"}, taskId \in {"A", "B"} :
       NumInFlight < MaxInFlight /\ on_task_complete(s, taskId, MaxOpsFail)
  \/ \E s \in {"s0", "s1"} : NumInFlight < MaxInFlight /\ on_change_house(s, 2, MaxOpsFail)
  \/ \E s \in {"s0", "s1"}, kind \in ThrowingKinds : on_no_payload(s, kind, MaxOpsFail)
  \/ \E k \in DOMAIN ops : getRoomState_findOne(k)
  \/ \E k \in DOMAIN ops : getRoomState_find(k)
  \/ \E k \in DOMAIN ops : createRoom_findOne(k)
  \/ \E k \in DOMAIN ops : createRoom_save(k)
  \/ \E k \in DOMAIN ops : createRoom_saveFails(k)
  \/ \E k \in DOMAIN ops : createRoom_log(k)
  \/ \E k \in DOMAIN ops : createRoom_logFails(k)
  \/ \E k \in DOMAIN ops : joinRoom_findOne(k)
  \/ \E k \in DOMAIN ops : joinRoom_save(k)
  \/ \E k \in DOMAIN ops : joinRoom_saveFails(k)
  \/ \E k \in DOMAIN ops : joinRoom_log(k)
  \/ \E k \in DOMAIN ops : joinRoom_logFails(k)
  \/ \E k \in DOMAIN ops : leaveRoom_findOne(k)
  \/ \E k \in DOMAIN ops : leaveRoom_save(k)
  \/ \E k \in DOMAIN ops : leaveRoom_saveFails(k)
  \/ \E k \in DOMAIN ops : leaveRoom_log(k)
  \/ \E k \in DOMAIN ops : leaveRoom_logFails(k)
  \/ \E k \in DOMAIN ops : updatePlayerPosition_findOne(k)
  \/ \E k \in DOMAIN ops : updatePlayerPosition_save(k)
  \/ \E k \in DOMAIN ops : updatePlayerPosition_saveFails(k)
  \/ \E k \in DOMAIN ops : completeTask_findOne(k)
  \/ \E k \in DOMAIN ops : completeTask_save(k)
  \/ \E k \in DOMAIN ops : completeTask_saveFails(k)
  \/ \E k \in DOMAIN ops : completeTask_updateOne(k)
  \/ \E k \in DOMAIN ops : completeTask_updateOneFails(k)
  \/ \E k \in DOMAIN ops : completeTask_log(k)
  \/ \E k \in DOMAIN ops : completeTask_logFails(k)
  \/ \E k \in DOMAIN ops : checkFloorCompletion_findOne(k)
  \/ \E k \in DOMAIN ops : checkFloorCompletion_find(k)
  \/ \E k \in DOMAIN ops : checkFloorCompletion_log(k)
  \/ \E k \in DOMAIN ops : checkFloorCompletion_logFails(k)
  \/ \E k \in DOMAIN ops : changeHouse_findOne(k)
  \/ \E k \in DOMAIN ops : changeHouse_save(k)
  \/ \E k \in DOMAIN ops : changeHouse_saveFails(k)
  \/ \E k \in DOMAIN ops : changeHouse_log(k)
  \/ \E k \in DOMAIN ops : changeHouse_logFails(k)

SpecFail == Init /\ [][NextFail]_vars

-----------------------------------------------------------------------------
(* Scenario "anon": the sockets of h and u1 send requests before and after *)
(* they authenticate, some without a field or without a payload; h creates *)
(* a room, u1 joins it, both may move and leave.                           *)

NextAnon ==
  \/ \E s \in {"s0", "s1"} : sockUser[s] = NoUser /\ authenticate(s, UserOf(s))
  \/ \E s \in {"s0", "s1"}, kind \in RequestKinds : on_unauthenticated(s, kind, MaxOpsAnon)
  \/ \E s \in {"s0", "s1"}, kind \in MissingFieldKinds :
       on_missing_field(s, kind, MaxOpsAnon)
  \/ \E s \in {"s0", "s1"}, kind \in NoPayloadKinds : on_no_payload(s, kind, MaxOpsAnon)
  \/ NumInFlight < MaxInFlight /\ on_create_room("s0", MaxOpsAnon)
  \/ NumInFlight < MaxInFlight /\ on_join_room("s1", 1, MaxOpsAnon)
  \/ \E s \in {"s0", "s1"} : NumInFlight < MaxInFlight /\ on_leave_room(s, MaxOpsAnon)
  \/ \E s \in {"s0", "s1"} : NumInFlight < MaxInFlight /\ on_player_move(s, 7, 9, MaxOpsAnon)
  \/ \E k \in DOMAIN ops : getRoomState_findOne(k)
  \/ \E k \in DOMAIN ops : getRoomState_find(k)
  \/ \E k \in DOMAIN ops : createRoom_findOne(k)
  \/ \E k \in DOMAIN ops : createRoom_save(k)
  \/ \E k \in DOMAIN ops : createRoom_log(k)
  \/ \E k \in DOMAIN ops : joinRoom_findOne(k)
  \/ \E k \in DOMAIN ops : joinRoom_save(k)
  \/ \E k \in DOMAIN ops : joinRoom_log(k)
  \/ \E k \in DOMAIN ops : leaveRoom_findOne(k)
  \/ \E k \in DOMAIN ops : leaveRoom_save(k)
  \/ \E k \in DOMAIN ops : leaveRoom_log(k)
  \/ \E k \in DOMAIN ops : updatePlayerPosition_findOne(k)
  \/ \E k \in DOMAIN ops : updatePlayerPosition_save(k)

SpecAnon == Init /\ [][NextAnon]_vars

-----------------------------------------------------------------------------
(* Scenario "reject": the host creates room 1 and four identities join it, *)
(* which fills it; u5 asks to join room 1 and then room 2, which does not  *)
(* exist; the host leaves, which closes room 1, and u5 asks to join it     *)
(* again.  The requests arrive in this order; at most MaxInFlight handlers *)
(* are suspended at the same time.                                         *)

NextReject ==
  \/ \E i \in DOMAIN JoinSockets :
       /\ Turn(i) /\ sockUser[JoinSockets[i]] = NoUser
       /\ authenticate(JoinSockets[i], UserOf(JoinSockets[i]))
  \/ Turn(1) /\ on_create_room("s0", MaxOpsReject)
  \/ \E i \in 2..Len(JoinSockets) :
       Turn(i) /\ on_join_room(JoinSockets[i], 1, MaxOpsReject)
  \/ Turn(7) /\ on_join_room("s5", 2, MaxOpsReject)
  \/ Turn(8) /\ on_leave_room("s0", MaxOpsReject)
  \/ Turn(9) /\ on_join_room("s5", 1, MaxOpsReject)
  \/ \E k \in DOMAIN ops : getRoomState_findOne(k)
  \/ \E k \in DOMAIN ops : getRoomState_find(k)
  \/ \E k \in DOMAIN ops : createRoom_findOne(k)
  \/ \E k \in DOMAIN ops : createRoom_save(k)
  \/ \E k \in DOMAIN ops : createRoom_log(k)
  \/ \E k \in DOMAIN ops : joinRoom_findOne(k)
  \/ \E k \in DOMAIN ops : joinRoom_save(k)
  \/ \E k \in DOMAIN ops : joinRoom_log(k)
  \/ \E k \in DOMAIN ops : leaveRoom_findOne(k)
  \/ \E k \in DOMAIN ops : leaveRoom_save(k)
  \/ \E k \in DOMAIN ops : leaveRoom_log(k)

SpecReject == InitJoin /\ [][NextReject]_vars

-----------------------------------------------------------------------------
(* Scenario "send": the host h creates a room, u1 joins it, either loses   *)
(* its transport (the leaveRoom of the disconnect may fail at its save),   *)
(* and personal messages and room broadcasts are sent.                     *)

NextSend ==
  \/ \E s \in {"s0", "s1"} : sockUser[s] = NoUser /\ authenticate(s, UserOf(s))
  \/ NumInFlight < MaxInFlight /\ on_create_room("s0", MaxOpsSend)
  \/ NumInFlight < MaxInFlight /\ on_join_room("s1", 1, MaxOpsSend)
  \/ \E s \in {"s0", "s1"} : NumInFlight < MaxInFlight /\ on_disconnect(s, MaxOpsSend)
  \/ \E message \in Messages, userId \in {"h", "u1"} :
       sendPersonalMessage(message, userId, MaxOpsSend)
  \/ \E message \in Messages, excludeUser \in {NoUser, "h"} :
       broadcastToRoom(message, 1, excludeUser, MaxOpsSend)
  \/ \E k \in DOMAIN ops : getRoomState_findOne(k)
  \/ \E k \in DOMAIN ops : getRoomState_find(k)
  \/ \E k \in DOMAIN ops : createRoom_findOne(k)
  \/ \E k \in DOMAIN ops : createRoom_save(k)
  \/ \E k \in DOMAIN ops : createRoom_log(k)
  \/ \E k \in DOMAIN ops : joinRoom_findOne(k)
  \/ \E k \in DOMAIN ops : joinRoom_save(k)
  \/ \E k \in DOMAIN ops : joinRoom_log(k)
  \/ \E k \in DOMAIN ops : leaveRoom_findOne(k)
  \/ \E k \in DOMAIN ops : leaveRoom_save(k)
  \/ \E k \in DOMAIN ops : leaveRoom_saveFails(k)
  \/ \E k \in DOMAIN ops : leaveRoom_log(k)

SpecSend == Init /\ [][NextSend]_vars

-----------------------------------------------------------------------------
(* Scenario "partial": the host h creates a room, u1 joins it, they        *)
(* complete the tasks A and B, change to the house 2 and leave, while any  *)
(* write of the Room or User collection may fail; every event append       *)
(* succeeds.  At most MaxInFlight handlers overlap.                        *)

NextPartial ==
  \/ \E s \in {"s0", "s1"} : sockUser[s] = NoUser /\ authenticate(s, UserOf(s))
  \/ NumInFlight < MaxInFlight /\ on_create_room("s0", MaxOpsPartial)
  \/ NumInFlight < MaxInFlight /\ on_join_room("s1", 1, MaxOpsPartial)
  \/ \E s \in {"s0", "s1"} : NumInFlight < MaxInFlight /\ on_leave_room(s, MaxOpsPartial)
  \/ \E s \in {"s0", "s1"}, taskId \in {"A", "B"} :
       NumInFlight < MaxInFlight /\ on_task_complete(s, taskId, MaxOpsPartial)
  \/ \E s \in {"s0", "s1"} : NumInFlight < MaxInFlight /\ on_change_house(s, 2, MaxOpsPartial)
  \/ \E username \in {"n1", ADMIN_USERNAME}, password \in {"", "pw"} :
       NumInFlight < MaxInFlight /\ on_post_users(username, password, MaxOpsPartial)
  \/ NumInFlight < MaxInFlight /\ on_admin_login(MaxOpsPartial)
  \/ \E admin \in Tokens, uid \in Users \cup {"u5"} :
       NumInFlight < MaxInFlight /\ on_delete_user(admin, uid, MaxOpsPartial)
  \/ \E admin \in Tokens, password \in {"", "pw"} :
       NumInFlight < MaxInFlight /\ on_create_admin(admin, "n2", password, MaxOpsPartial)
  \/ \E k \in DOMAIN ops, u \in Range(GeneratedUids) :
       NextUid(u) /\ post_users_findOne(k, u)
  \/ \E k \in DOMAIN ops : post_users_hash(k)
  \/ \E k \in DOMAIN ops : post_users_save(k)
  \/ \E k \in DOMAIN ops : post_users_saveFails(k)
  \/ \E k \in DOMAIN ops : admin_login_findOne(k)
  \/ \E k \in DOMAIN ops, u \in Range(GeneratedUids) :
       NextUid(u) /\ admin_login_hash(k, u)
  \/ \E k \in DOMAIN ops : admin_login_save(k)
  \/ \E k \in DOMAIN ops : admin_login_saveFails(k)
  \/ \E k \in DOMAIN ops : requireAdmin(k)
  \/ \E k \in DOMAIN ops : delete_user_findOne(k)
  \/ \E k \in DOMAIN ops : delete_user_deleteOne(k)
  \/ \E k \in DOMAIN ops : delete_user_deleteOneFails(k)
  \/ \E k \in DOMAIN ops : create_admin_findOne(k)
  \/ \E k \in DOMAIN ops, u \in Range(GeneratedUids) :
       NextUid(u) /\ create_admin_hash(k, u)
  \/ \E k \in DOMAIN ops : create_admin_save(k)
  \/ \E k \in DOMAIN ops : create_admin_saveFails(k)
  \/ \E k \in DOMAIN ops : admin_users_log(k)
  \/ \E k \in DOMAIN ops : admin_users_logFails(k)
  \/ \E k \in DOMAIN ops : getRoomState_findOne(k)
  \/ \E k \in DOMAIN ops : getRoomState_find(k)
  \/ \E k \in DOMAIN ops : createRoom_findOne(k)
  \/ \E k \in DOMAIN ops : createRoom_save(k)
  \/ \E k \in DOMAIN ops : createRoom_saveFails(k)
  \/ \E k \in DOMAIN ops : createRoom_log(k)
  \/ \E k \in DOMAIN ops : joinRoom_findOne(k)
  \/ \E k \in DOMAIN ops : joinRoom_save(k)
  \/ \E k \in DOMAIN ops : joinRoom_saveFails(k)
  \/ \E k \in DOMAIN ops : joinRoom_log(k)
  \/ \E k \in DOMAIN ops : leaveRoom_findOne(k)
  \/ \E k \in DOMAIN ops : leaveRoom_save(k)
  \/ \E k \in DOMAIN ops : leaveRoom_saveFails(k)
  \/ \E k \in DOMAIN ops : leaveRoom_log(k)
  \/ \E k \in DOMAIN ops : completeTask_findOne(k)
  \/ \E k \in DOMAIN ops : completeTask_save(k)
  \/ \E k \in DOMAIN ops : completeTask_saveFails(k)
  \/ \E k \in DOMAIN ops : completeTask_updateOne(k)
  \/ \E k \in DOMAIN ops : completeTask_updateOneFails(k)
  \/ \E k \in DOMAIN ops : completeTask_log(k)
  \/ \E k \in DOMAIN ops : checkFloorCompletion_findOne(k)
  \/ \E k \in DOMAIN ops : checkFloorCompletion_find(k)
  \/ \E k \in DOMAIN ops : checkFloorCompletion_log(k)
  \/ \E k \in DOMAIN ops : changeHouse_findOne(k)
  \/ \E k \in DOMAIN ops : changeHouse_save(k)
  \/ \E k \in DOMAIN ops : changeHouse_saveFails(k)
  \/ \E k \in DOMAIN ops : changeHouse_log(k)

SpecPartial == Init /\ [][NextPartial]_vars

-----------------------------------------------------------------------------
(* Scenario "state": the host h creates a room, completes the task A,      *)
(* changes to the house 2 and leaves; u1 joins the room; both ask for the  *)
(* room state, and either read of getRoomState may fail.  At most          *)
(* MaxInFlight handlers overlap.                                           *)

NextState ==
  \/ \E s \in {"s0", "s1"} : sockUser[s] = NoUser /\ authenticate(s, UserOf(s))
  \/ NumInFlight < MaxInFlight /\ on_create_room("s0", MaxOpsState)
  \/ NumInFlight < MaxInFlight /\ on_join_room("s1", 1, MaxOpsState)
  \/ NumInFlight < MaxInFlight /\ on_leave_room("s0", MaxOpsState)
  \/ NumInFlight < MaxInFlight /\ on_task_complete("s0", "A", MaxOpsState)
  \/ NumInFlight < MaxInFlight /\ on_change_house("s0", 2, MaxOpsState)
  \/ \E s \in {"s0", "s1"} : NumInFlight < MaxInFlight /\ on_get_room_state(s, MaxOpsState)
  \/ \E k \in DOMAIN ops : getRoomState_findOne(k)
  \/ \E k \in DOMAIN ops : getRoomState_find(k)
  \/ \E k \in DOMAIN ops : getRoomState_findOneFails(k)
  \/ \E k \in DOMAIN ops : getRoomState_findFails(k)
  \/ \E k \in DOMAIN ops : createRoom_findOne(k)
  \/ \E k \in DOMAIN ops : createRoom_save(k)
  \/ \E k \in DOMAIN ops : createRoom_log(k)
  \/ \E k \in DOMAIN ops : joinRoom_findOne(k)
  \/ \E k \in DOMAIN ops : joinRoom_save(k)
  \/ \E k \in DOMAIN ops : joinRoom_log(k)
  \/ \E k \in DOMAIN ops : leaveRoom_findOne(k)
  \/ \E k \in DOMAIN ops : leaveRoom_save(k)
  \/ \E k \in DOMAIN ops : leaveRoom_log(k)
  \/ \E k \in DOMAIN ops : completeTask_findOne(k)
  \/ \E k \in DOMAIN ops : completeTask_save(k)
  \/ \E k \in DOMAIN ops : completeTask_updateOne(k)
  \/ \E k \in DOMAIN ops : completeTask_log(k)
  \/ \E k \in DOMAIN ops : checkFloorCompletion_findOne(k)
  \/ \E k \in DOMAIN ops : checkFloorCompletion_find(k)
  \/ \E k \in DOMAIN ops : changeHouse_findOne(k)
  \/ \E k \in DOMAIN ops : changeHouse_save(k)
  \/ \E k \in DOMAIN ops : changeHouse_log(k)

SpecState == Init /\ [][NextState]_vars

-----------------------------------------------------------------------------
(* Scenario "old": the identity h authenticates on the socket s0 and on    *)
(* the socket s1, either socket creates the room of h, leaves it or loses  *)
(* its transport.  At most MaxInFlight handlers overlap.                   *)

NextOld ==
  \/ \E s \in {"s0", "s1"} : authenticate(s, "h")
  \/ \E s \in {"s0", "s1"} : NumInFlight < MaxInFlight /\ on_create_room(s, MaxOpsOld)
  \/ \E s \in {"s0", "s1"} : NumInFlight < MaxInFlight /\ on_leave_room(s, MaxOpsOld)
  \/ \E s \in {"s0", "s1"} : NumInFlight < MaxInFlight /\ on_disconnect(s, MaxOpsOld)
  \/ \E k \in DOMAIN ops : getRoomState_findOne(k)
  \/ \E k \in DOMAIN ops : getRoomState_find(k)
  \/ \E k \in DOMAIN ops : createRoom_findOne(k)
  \/ \E k \in DOMAIN ops : createRoom_save(k)
  \/ \E k \in DOMAIN ops : createRoom_log(k)
  \/ \E k \in DOMAIN ops : leaveRoom_findOne(k)
  \/ \E k \in DOMAIN ops : leaveRoom_save(k)
  \/ \E k \in DOMAIN ops : leaveRoom_log(k)

SpecOld == Init /\ [][NextOld]_vars

-----------------------------------------------------------------------------
(* Scenario "rejoin": the host creates room 1; u1 joins it, moves and      *)
(* joins it again; u2, u3 and u4 join, which fills the room; u1 joins once *)
(* more.  Each request arrives when the one before it has been handled.    *)

\* The i-th request arrives when no handler is suspended
Alone(i) == Len(ops) = i - 1 /\ NumInFlight = 0

NextRejoin ==
  \/ \E s \in {"s0", "s1", "s2", "s3", "s4"} :
       sockUser[s] = NoUser /\ authenticate(s, UserOf(s))
  \/ Alone(1) /\ on_create_room("s0", MaxOpsRejoin)
  \/ \E i \in {2, 4, 8} : Alone(i) /\ on_join_room("s1", 1, MaxOpsRejoin)
  \/ \E p \in Positions : Alone(3) /\ on_player_move("s1", p[1], p[2], MaxOpsRejoin)
  \/ \E i \in 3..5 : Alone(i + 2) /\ on_join_room(JoinSockets[i], 1, MaxOpsRejoin)
  \/ \E k \in DOMAIN ops : getRoomState_findOne(k)
  \/ \E k \in DOMAIN ops : getRoomState_find(k)
  \/ \E k \in DOMAIN ops : createRoom_findOne(k)
  \/ \E k \in DOMAIN ops : createRoom_save(k)
  \/ \E k \in DOMAIN ops : createRoom_log(k)
  \/ \E k \in DOMAIN ops : joinRoom_findOne(k)
  \/ \E k \in DOMAIN ops : joinRoom_save(k)
  \/ \E k \in DOMAIN ops : joinRoom_log(k)
  \/ \E k \in DOMAIN ops : updatePlayerPosition_findOne(k)
  \/ \E k \in DOMAIN ops : updatePlayerPosition_save(k)

SpecRejoin == InitJoin /\ [][NextRejoin]_vars

-----------------------------------------------------------------------------
(* Properties *)

\* The document with roomId rid in a Room collection
DocOf(coll, rid) == coll[CHOOSE i \in DOMAIN coll : coll[i].roomId = rid]

Occurrences(seq, x) == Cardinality({i \in DOMAIN seq : seq[i] = x})

EventsOf(rid, type) ==
  {i \in DOMAIN events : events[i].roomId = rid /\ events[i].eventType = type}

\* The handlers that mutate a room through RoomManager (moves excepted)
MutationKinds == {"join", "leave", "disconnect", "task", "house"}

\* The handler has loaded the room and has not yet appended its event
Committing(k) == ops[k].pc \in {"save", "updateOne", "log"}

\* C1: the players roster of every stored room holds at most
\* MAX_PLAYERS_PER_ROOM entries, whatever join requests are in flight.
C1_RosterWithinCapacity ==
  \A i \in DOMAIN rooms : Len(rooms[i].players) <= MAX_PLAYERS_PER_ROOM

\* C2: every user id is in the roster of at most one active room.
C2_OneActiveRoomPerUser ==
  \A u \in AllUsers :
    Cardinality({i \in DOMAIN rooms :
                   rooms[i].isActive /\ u \in PlayerIds(rooms[i])}) <= 1

\* C3: as long as no house change was requested, a task id completed in a
\* room is applied by at most one completeTask call, logged by at most one
\* task_complete event and stored at most once in completedTasks.
C3_CompletedOnce ==
  (\A k \in DOMAIN ops : ops[k].kind # "house") =>
    \A i \in DOMAIN rooms, t \in TaskIds :
      /\ Cardinality({k \in DOMAIN ops :
                        /\ ops[k].kind = "task" /\ ops[k].room = rooms[i].roomId
                        /\ ops[k].arg.taskId = t /\ ops[k].res = "true"}) <= 1
      /\ Cardinality({e \in EventsOf(rooms[i].roomId, "task_complete") :
                        events[e].eventData.taskId = t}) <= 1
      /\ Occurrences(rooms[i].completedTasks, t) <= 1

\* C4: mutations of one room run one at a time in arrival order: no mutation
\* has loaded the room while an earlier mutation of the same room has not
\* yet resolved its store write and its event append.
C4_OneMutationAtATime ==
  \A k1, k2 \in DOMAIN ops :
    (/\ k1 < k2
     /\ ops[k1].kind \in MutationKinds /\ ops[k2].kind \in MutationKinds
     /\ ops[k1].room = ops[k2].room)
    => ~((ops[k1].pc = "findOne" \/ Committing(k1)) /\ Committing(k2))

\* C5: a room whose isActive flag is false keeps its players, currentHouse,
\* currentFloor, completedTasks and activeTasks for ever.
C5_InactiveIsTerminal ==
  [][\A i \in DOMAIN rooms :
       ~rooms[i].isActive =>
         /\ rooms'[i].players = rooms[i].players
         /\ rooms'[i].currentHouse = rooms[i].currentHouse
         /\ rooms'[i].currentFloor = rooms[i].currentFloor
         /\ rooms'[i].completedTasks = rooms[i].completedTasks
         /\ rooms'[i].activeTasks = rooms[i].activeTasks]_vars

\* C6: completedTasks of every room holds only task ids of the catalog of
\* the room's current house and floor.
C6_CompletedWithinCatalog ==
  \A i \in DOMAIN rooms :
    Range(rooms[i].completedTasks)
      \subseteq Catalog(rooms[i].currentHouse, rooms[i].currentFloor)

\* C7: once a room has left its first house, completeTask does not go on to
\* record a task id of the first house that the new house does not define.
C7_StaleTaskRejected ==
  [][\A k \in DOMAIN ops :
       (ops[k].kind = "task" /\ ops[k].pc = "findOne" /\ ops'[k].pc = "save")
       => LET room == FindActiveRoom(ops[k].room)
          IN ~(/\ room.currentHouse # DefaultHouse
               /\ ops[k].arg.taskId \in Catalog(DefaultHouse, DefaultFloor)
               /\ ops[k].arg.taskId \notin Catalog(room.currentHouse,
                                                   room.currentFloor))]_vars

\* C8: the store write of a successful changeHouse(roomId, houseId) leaves
\* the room with currentHouse = houseId, currentFloor = 1, no completed and
\* no active task, and with the players, host and isActive it had.
C8_ChangeHouseEffect ==
  [][\A k \in DOMAIN ops :
       (ops[k].kind = "house" /\ ops[k].pc = "save" /\ ops'[k].pc = "log")
       => LET old == DocOf(rooms, ops[k].room)
              new == DocOf(rooms', ops[k].room)
          IN /\ new.currentHouse = ops[k].arg.houseId
             /\ new.currentFloor = 1
             /\ new.completedTasks = <<>>
             /\ new.activeTasks = <<>>
             /\ new.players = old.players
             /\ new.hostUserId = old.hostUserId
             /\ new.isActive = old.isActive]_vars

\* checkFloorCompletion of handler k returns to its caller or goes on to log
\* the completed floor (and then returns true)
FloorDecided(k) ==
  /\ ops[k].pc \in {"checkFloor", "floorTasks"}
  /\ ops'[k].pc \in {"floorLog", "done"}

FloorTrue(k) == ops'[k].pc = "floorLog"

\* the room document checkFloorCompletion of handler k decides on: the one
\* its lookup returned, NoDoc when the lookup found no active room
FloorRoom(k) == IF ops[k].pc = "floorTasks" THEN ops[k].doc ELSE NoDoc

C10_RetryReturnsSameRoom ==
  \A k1, k2 \in DOMAIN ops :
    (/\ ops[k1].kind = "create" /\ ops[k2].kind = "create"
     /\ ops[k1].user = ops[k2].user
     /\ ops[k1].res = "true" /\ ops[k2].res = "true"
     /\ \A k \in DOMAIN ops :
          ops[k].kind \in {"leave", "disconnect"} => ops[k].user # ops[k1].user)
    => ops[k1].room = ops[k2].room

\* C11: every user id is the hostUserId of at most one active room, whatever
\* create_room requests are in flight.
C11_OneActiveRoomPerHost ==
  \A u \in AllUsers :
    Cardinality({i \in DOMAIN rooms :
                   rooms[i].isActive /\ rooms[i].hostUserId = u}) <= 1

\* the store write of a leaveRoom call of handler k succeeds
LeaveCommits(k) ==
  /\ ops[k].kind \in {"leave", "disconnect"}
  /\ ops[k].pc = "save" /\ ops'[k].pc = "log"

\* cleanupInactiveRooms of handler k handles the room rid
SweepHandles(k, rid) ==
  /\ ops[k].kind = "sweep" /\ ops[k].pc = "sweepSave"
  /\ Len(ops'[k].found) < Len(ops[k].found)
  /\ Head(ops[k].found).roomId = rid

\* the leaveRoom of handler k is the host's, or leaves the roster empty
ClosingLeave(k, i) ==
  ops[k].user = rooms[i].hostUserId \/ rooms'[i].players = <<>>

\* the administrative close of handler k writes the room rid
AdminCloses(k, rid) ==
  /\ ops[k].kind = "close" /\ ops[k].pc = "save" /\ ops'[k].pc = "adminLog"
  /\ ops[k].room = rid

\* a successful leaveRoom on an active room turns isActive false exactly
\* when it is the host's or empties the roster
LeaveClosesExactly(i) ==
  \A k \in DOMAIN ops :
    (LeaveCommits(k) /\ ops[k].room = rooms[i].roomId /\ rooms[i].isActive)
    => (rooms'[i].isActive <=> ~ClosingLeave(k, i))

\* C12 (as stated): a room's isActive flag turns false only in the store
\* write of a successful leaveRoom that is the host's or empties the roster,
\* or in a turn of the idle sweep; and a successful leaveRoom on an active
\* room closes it exactly in those two cases (a non-host leave that leaves
\* an occupant keeps the room active).
C12_InactiveExactlyWhen ==
  [][\A i \in DOMAIN rooms :
       /\ (rooms[i].isActive /\ ~rooms'[i].isActive)
            => \E k \in DOMAIN ops :
                 \/ /\ LeaveCommits(k) /\ ops[k].room = rooms[i].roomId
                    /\ ClosingLeave(k, i)
                 \/ SweepHandles(k, rooms[i].roomId)
       /\ LeaveClosesExactly(i)]_vars

\* C12 (amended): as C12, with the administrative close of the room as a
\* third way in which isActive turns false.
C12_InactiveExactlyWhenOrClosed ==
  [][\A i \in DOMAIN rooms :
       /\ (rooms[i].isActive /\ ~rooms'[i].isActive)
            => \E k \in DOMAIN ops :
                 \/ /\ LeaveCommits(k) /\ ops[k].room = rooms[i].roomId
                    /\ ClosingLeave(k, i)
                 \/ SweepHandles(k, rooms[i].roomId)
                 \/ AdminCloses(k, rooms[i].roomId)
       /\ LeaveClosesExactly(i)]_vars

\* C12 witness: the host's leave has closed the room while u1 is still in
\* its roster, and u1's join and the host's leave both succeeded.
C12_Witness ==
  \E i \in DOMAIN rooms, k \in DOMAIN ops :
    /\ ~rooms[i].isActive /\ PlayerIds(rooms[i]) = {"u1"}
    /\ ops[k].kind = "leave" /\ ops[k].user = rooms[i].hostUserId
    /\ ops[k].room = rooms[i].roomId /\ ops[k].res = "true"

\* the room rid is active and has seen no activity for ROOM_TIMEOUT
IdleActive(rid) ==
  \E i \in DOMAIN rooms :
    rooms[i].roomId = rid /\ rooms[i].isActive /\ Expired(rooms[i])

\* C13: an active room that has seen no activity for ROOM_TIMEOUT does not
\* stay so for ever: it is eventually deactivated (or sees activity again),
\* whether or not any participant sends a request.
C13_IdleRoomEventuallyInactive ==
  \A rid \in RoomIdSet : IdleActive(rid) ~> ~IdleActive(rid)

\* C14: the handler of a transport disconnect does not take the participant
\* out of the roster: no step of a disconnect handler changes the players
\* (entries and positions) of the participant's room.
C14_DisconnectKeepsRoster ==
  [][\A k \in DOMAIN ops, i \in DOMAIN rooms :
       (/\ ops[k].kind = "disconnect" /\ ops'[k] # ops[k]
        /\ rooms[i].roomId = ops[k].room)
       => rooms'[i].players = rooms[i].players]_vars

\* the player_leave events of u in the log of room rid
LeaveEvents(rid, u) ==
  {e \in EventsOf(rid, "player_leave") : events[e].userId = u}

\* the create_room and join_room requests that made u an occupant of rid
Entries(rid, u) ==
  {k \in DOMAIN ops : /\ ops[k].kind \in {"create", "join"} /\ ops[k].user = u
                      /\ ops[k].room = rid /\ ops[k].res = "true"}

\* C15: once the disconnect handler of a participant who entered its room
\* once has run to its end, the room's log holds exactly one player_leave
\* event of that participant, whatever leave_room requests came before.
C15_OneLeaveEvent ==
  \A k \in DOMAIN ops :
    (/\ ops[k].kind = "disconnect" /\ ops[k].pc = "done"
     /\ Cardinality(Entries(ops[k].room, ops[k].user)) = 1
     /\ \A j \in DOMAIN ops : ops[j].user = ops[k].user => ops[j].pc = "done")
    => Cardinality(LeaveEvents(ops[k].room, ops[k].user)) = 1

\* The messages delivered to the socket s
DeliveredTo(s) == {m \in emitted : m.to = s}

\* s was bound to an identity that a later authenticate bound to another
\* socket
Superseded(s) ==
  /\ sockUser[s] # NoUser
  /\ activeConnections[sockUser[s]] \notin {s, NoSock}

\* C16: once the identity of a socket is bound to another socket by a later
\* authenticate, nothing more is delivered to the old socket, neither a
\* personal message nor a room broadcast.
C16_OldChannelSilent ==
  [][\A s \in AllSockets :
       (Superseded(s) /\ Superseded(s)') => DeliveredTo(s)' = DeliveredTo(s)]_vars

\* The messages the handlers send with socket.to(roomId) or io.to(roomId)
BroadcastTypes ==
  {"player_joined", "player_left", "player_moved", "task_completed",
   "floor_complete"}

\* The broadcasts of the room rid delivered to the socket s
BroadcastsTo(s, rid) ==
  {m \in emitted : m.to = s /\ m.room = rid /\ m.type \in BroadcastTypes}

\* A leave_room of s out of rid has been processed with success, and s has
\* sent no create_room or join_room after it
HasLeft(s, rid) ==
  \E k \in DOMAIN ops :
    /\ ops[k].kind = "leave" /\ ops[k].sock = s /\ ops[k].room = rid
    /\ ops[k].pc = "done" /\ ops[k].res = "true"
    /\ \A j \in DOMAIN ops :
         (j > k /\ ops[j].sock = s) => ops[j].kind \notin {"create", "join"}

\* C17: no broadcast of a room is delivered to a socket whose leave_room
\* out of that room was processed before the delivery.
C17_NoBroadcastAfterLeave ==
  [][\A s \in AllSockets, rid \in RoomIdSet :
       HasLeft(s, rid) => BroadcastsTo(s, rid)' = BroadcastsTo(s, rid)]_vars

\* The store write of the mutation k fails in this step: save() or
\* updateOne() rejects, or save() throws VersionError
WriteFails(k) ==
  \/ createRoom_saveFails(k)
  \/ joinRoom_saveFails(k)
  \/ leaveRoom_saveFails(k)
  \/ updatePlayerPosition_saveFails(k)
  \/ completeTask_saveFails(k)
  \/ completeTask_updateOneFails(k)
  \/ changeHouse_saveFails(k)
  \/ /\ \/ joinRoom_save(k)
        \/ leaveRoom_save(k)
        \/ updatePlayerPosition_save(k)
        \/ completeTask_save(k)
        \/ changeHouse_save(k)
     /\ VersionError(Stored(ops[k].room), ops[k].doc, ops[k].mods)

\* A step of the mutation k that ends before its store writes have all
\* succeeded, or in the failure result at one of its store writes
BeforeOrFailed(k) ==
  /\ ops'[k] # ops[k]
  /\ \/ ops'[k].pc \in {"save", "updateOne"}
     \/ ops[k].pc \in {"save", "updateOne"} /\ ops'[k].res = "false"

\* C18: when the store write of a mutation fails, the mutation returns its
\* failure result, and no step of it up to and including the failure has
\* changed the activeRooms cache or the connectedPlayers sets or appended an
\* event.
C18_FailedWriteLeavesMemory ==
  [][\A k \in DOMAIN ops :
       /\ WriteFails(k) => (ops'[k].pc = "done" /\ ops'[k].res = "false")
       /\ BeforeOrFailed(k) =>
            /\ activeRooms' = activeRooms
            /\ connectedPlayers' = connectedPlayers
            /\ events' = events]_vars

\* A createRoom has failed (only its save() can make it fail) and left no
\* cache entry, no connected-player set and no event
C18_Witness ==
  \E k \in DOMAIN ops :
    /\ ops[k].kind = "create" /\ ops[k].pc = "done" /\ ops[k].res = "false"
    /\ activeRooms[ops[k].room] = NoDoc
    /\ connectedPlayers[ops[k].room] = {}
    /\ EventsOf(ops[k].room, "game_start") = {}

\* The gameEvent.save() of a logGameEvent call of the handler k rejects in
\* this step
LogFailed(k) ==
  \/ createRoom_logFails(k)
  \/ joinRoom_logFails(k)
  \/ leaveRoom_logFails(k)
  \/ completeTask_logFails(k)
  \/ checkFloorCompletion_logFails(k)
  \/ changeHouse_logFails(k)

\* C19: when logGameEvent fails to append the event of a createRoom,
\* joinRoom, leaveRoom, completeTask or changeHouse, the mutation returns
\* success and its stored state change stays; when it fails to append the
\* floor_complete event, checkFloorCompletion still returns true after the
\* successful completeTask, and the stored state stays.
C19_LogFailureIsSwallowed ==
  [][\A k \in DOMAIN ops :
       LogFailed(k) =>
         /\ ops'[k].pc # "log"
         /\ ops'[k].res = "true"
         /\ ops[k].pc = "floorLog" => ops'[k].floor = "true"
         /\ events' = events
         /\ rooms' = rooms
         /\ accounts' = accounts]_vars

\* A joinRoom has returned success and its participant is in the stored
\* roster, and the log holds no player_join event of the room
C19_Witness ==
  \E k \in DOMAIN ops :
    /\ ops[k].kind = "join" /\ ops[k].pc = "done" /\ ops[k].res = "true"
    /\ ops[k].user \in PlayerIds(Stored(ops[k].room))
    /\ EventsOf(ops[k].room, "player_join") = {}

\* The stored documents of the room rid
StoredDocs(coll, rid) == {coll[i] : i \in {j \in DOMAIN coll : coll[j].roomId = rid}}

\* The handler k runs in this step: its request arrives or one of its
\* awaits resolves
Runs(k) ==
  /\ k \in DOMAIN ops => ops'[k] # ops[k]
  /\ ops'[k].pc # "exit"

\* C20: a step of a handler acting on one room, whether it succeeds, fails
\* at the store or throws, changes neither the stored document nor the
\* cache entry nor the connected-player set of any other room.
C20_OtherRoomsUntouched ==
  [][\A k \in DOMAIN ops' :
       (Runs(k) /\ ops'[k].room # NoRoomId) =>
         \A rid \in RoomIdSet \ {ops'[k].room} :
           /\ StoredDocs(rooms', rid) = StoredDocs(rooms, rid)
           /\ activeRooms'[rid] = activeRooms[rid]
           /\ connectedPlayers'[rid] = connectedPlayers[rid]]_vars

\* The moves of the participant u in the room rid
MovesOf(rid, u) ==
  {k \in DOMAIN ops : ops[k].kind = "move" /\ ops[k].room = rid /\ ops[k].user = u}

\* C21: when two player_move actions of one participant have both been
\* processed with success, the stored position of the participant is the
\* position of the move that arrived later.
C21_LastMoveWins ==
  \A k1, k2 \in DOMAIN ops :
    (/\ k1 < k2
     /\ MovesOf(ops[k1].room, ops[k1].user) = {k1, k2}
     /\ ops[k1].pc = "done" /\ ops[k2].pc = "done"
     /\ ops[k1].res = "true" /\ ops[k2].res = "true"
     /\ ops[k1].user \in PlayerIds(Stored(ops[k1].room)))
    => LET room == Stored(ops[k1].room)
           p == room.players[PlayerIndex(room, ops[k1].user)]
       IN p.x = ops[k2].arg.x /\ p.y = ops[k2].arg.y

\* A create_room, join_room, leave_room, player_move, task_complete or
\* change_house of a socket that has not authenticated arrives in this step
UnauthenticatedArrives ==
  /\ Len(ops') = Len(ops) + 1
  /\ ops'[Len(ops')].user = NoUser
  /\ ops'[Len(ops')].kind \in {"create", "join", "leave", "move", "task", "house"}

\* C22: a request on a socket that has not authenticated changes no stored
\* room, no cache, no presence binding and no event, starts no pending work
\* and leaves the socket open and unauthenticated, so that it can
\* authenticate afterwards.
C22_UnauthenticatedIsRejected ==
  [][UnauthenticatedArrives =>
       /\ ops'[Len(ops')].pc = "done"
       /\ ops'[Len(ops')].sock \in sockOpen'
       /\ UNCHANGED <<rooms, events, accounts, activeRooms, connectedPlayers,
                      activeConnections, userRooms, sockUser, sockOpen,
                      sockRooms>>]_vars

\* joinRoom finds no active room of that id, or finds the room full: the
\* only way of a join from its lookup straight to its end
JoinRejected(k) ==
  /\ ops[k].kind = "join"
  /\ ops[k].pc = "findOne"
  /\ ops'[k].pc = "done"

\* C23: a join_room for a room that does not exist, is inactive or is full
\* fails; an error message goes to the requesting socket and to no other,
\* no stored room and no cache changes, the identity's room binding and the
\* socket's room membership stay as they were, and no event is appended.
C23_RejectedJoinHasNoEffect ==
  [][\A k \in DOMAIN ops :
       JoinRejected(k) =>
         /\ ops'[k].res = "false"
         /\ \E m \in emitted' : m.to = ops[k].sock /\ m.type = "error"
         /\ \A m \in emitted' \ emitted : m.to = ops[k].sock /\ m.type = "error"
         /\ UNCHANGED <<rooms, events, activeRooms, connectedPlayers,
                        userRooms, sockRooms>>]_vars

\* u5 was refused by the full room 1, by the missing room 2 and, after the
\* host left, by the closed room 1, and is bound to no room
C23_Witness ==
  /\ Len(ops) = 9
  /\ \A k \in 1..5 : ops[k].res = "true"
  /\ \A k \in {6, 7, 9} : ops[k].pc = "done" /\ ops[k].res = "false"
  /\ ops[8].pc = "done" /\ ops[8].res = "true"
  /\ ~rooms[1].isActive
  /\ "u5" \notin PlayerIds(rooms[1])
  /\ userRooms["u5"] = NoRoomId
  /\ Cardinality(EventsOf(1, "player_join")) = 4

\* C24: as long as a room is not closed, its players roster keeps the entry
\* of every participant it held, also of those who left or disconnected.
C24_RosterKeepsLeavers ==
  [][\A i \in DOMAIN rooms :
       rooms'[i].isActive => PlayerIds(rooms[i]) \subseteq PlayerIds(rooms'[i])]_vars

\* The call of sendPersonalMessage or broadcastToRoom made in this step
SendArrives(kind) ==
  /\ Len(ops') = Len(ops) + 1
  /\ ops'[Len(ops')].kind = kind

\* The sockets of the occupants of rid, the excluded one apart, that have
\* a live connection
LiveOccupants(rid, excludeUser) ==
  {activeConnections[u] : u \in {w \in connectedPlayers[rid] \ {excludeUser} :
                                    /\ activeConnections[w] # NoSock
                                    /\ activeConnections[w] \in sockOpen}}

\* C25: sendPersonalMessage to an identity without an entry in
\* activeConnections delivers nothing and returns without an error; a
\* broadcastToRoom returns without an error, delivers the message to every
\* occupant with a live connection and to no other socket.
C25_DeadDeliveryIsNoOp ==
  [][/\ SendArrives("send") =>
          /\ ops'[Len(ops')].res = "true"
          /\ activeConnections[ops'[Len(ops')].user] = NoSock => emitted' = emitted
     /\ SendArrives("broadcast") =>
          LET o == ops'[Len(ops')]
          IN /\ o.res = "true"
             /\ \A s \in LiveOccupants(o.room, o.user) :
                  \E m \in emitted' : m.to = s /\ m.type = "message" /\ m.room = o.room
             /\ \A m \in emitted' \ emitted : m.to \in LiveOccupants(o.room, o.user)]_vars

\* A broadcast has reached the host while u1, without a connection, is
\* still in the connected-player set of the room
C25_Witness ==
  /\ "u1" \in connectedPlayers[1]
  /\ activeConnections["u1"] = NoSock
  /\ \E k \in DOMAIN ops : ops[k].kind = "broadcast" /\ ops[k].user = NoUser
  /\ \E k \in DOMAIN ops : ops[k].kind = "send" /\ ops[k].user = "u1"
  /\ \E m \in emitted : m.to = "s0" /\ m.type = "message" /\ m.room = 1
  /\ \A m \in emitted : m.type = "message" => m.to = "s0"

\* The fields of a room document that the cache is compared on
CachedView(doc) ==
  [players |-> doc.players, isActive |-> doc.isActive,
   currentHouse |-> doc.currentHouse, currentFloor |-> doc.currentFloor,
   completedTasks |-> doc.completedTasks]

\* C26: whenever no handler is in flight, every room held in the
\* activeRooms cache has the roster, the isActive flag, the house and floor
\* and the completed tasks of the stored room.
C26_CacheMatchesStore ==
  (\A k \in DOMAIN ops : ~InFlight(k)) =>
    \A rid \in RoomIdSet :
      activeRooms[rid] # NoDoc => CachedView(activeRooms[rid]) = CachedView(Stored(rid))

\* The event type that a RoomManager mutation logs
EventTypeOf(kind) ==
  CASE kind = "create" -> "game_start"
    [] kind = "join" -> "player_join"
    [] kind \in {"leave", "disconnect"} -> "player_leave"
    [] kind = "task" -> "task_complete"
    [] kind = "house" -> "house_change"

\* The RoomManager call of the handler k returns in this step
Returns(k, res) == ops[k].res = "none" /\ ops'[k].res = res

\* C27: a createRoom of a new room, a joinRoom, a leaveRoom, a completeTask
\* or a changeHouse that returns success has appended exactly one event, of
\* its kind and for its room; one that returns failure has appended no
\* event and has written no room.
C27_OneEventPerSuccess ==
  [][\A k \in DOMAIN ops :
       /\ (/\ ops[k].kind \in {"create", "join", "leave", "disconnect", "task", "house"}
           /\ ops[k].pc = "log"
           /\ Returns(k, "true"))
          => /\ Len(events') = Len(events) + 1
             /\ events'[Len(events')].roomId = ops[k].room
             /\ events'[Len(events')].eventType = EventTypeOf(ops[k].kind)
       /\ (/\ ops[k].kind \in {"create", "join", "leave", "disconnect", "task", "house"}
           /\ ops[k].pc \in {"findOne", "save", "updateOne"}
           /\ ops'[k] # ops[k])
          => events' = events
       /\ (/\ ops[k].kind \in {"create", "join", "leave", "disconnect", "task", "house"}
           /\ Returns(k, "false"))
          => /\ events' = events
             /\ rooms' = rooms
             /\ ops[k].pc \notin {"updateOne", "log"}]_vars

\* C28: every event names as its userId the identity whose request made
\* the handler append it; so do the house_change and floor_complete events.
C28_EventNamesActor ==
  [][\A k \in DOMAIN ops :
       (ops'[k] # ops[k] /\ Len(events') = Len(events) + 1)
       => events'[Len(events')].userId = ops[k].user]_vars

\* The task_complete events of the task taskId in the room rid
TaskEvents(rid, taskId) ==
  {e \in EventsOf(rid, "task_complete") : events[e].eventData.taskId = taskId}

\* C29: the events of one room are in the order in which their mutations
\* were committed to the store: of two tasks, each stored once in
\* completedTasks and each logged once, the one stored first is logged
\* first.
C29_EventsFollowCommits ==
  \A i \in DOMAIN rooms :
    \A a, b \in DOMAIN rooms[i].completedTasks :
      LET ta == rooms[i].completedTasks[a]
          tb == rooms[i].completedTasks[b]
      IN (/\ a < b
          /\ Occurrences(rooms[i].completedTasks, ta) = 1
          /\ Occurrences(rooms[i].completedTasks, tb) = 1
          /\ Cardinality(TaskEvents(rooms[i].roomId, ta)) = 1
          /\ Cardinality(TaskEvents(rooms[i].roomId, tb)) = 1)
         => \A ea \in TaskEvents(rooms[i].roomId, ta),
               eb \in TaskEvents(rooms[i].roomId, tb) : ea < eb

\* The identities other than u that a completed create_room or join_room
\* has bound to the room rid, that are in its stored roster and that hold an
\* open socket
OtherOccupants(rid, u) ==
  {w \in AllUsers \ {u} :
     /\ userRooms[w] = rid
     /\ w \in PlayerIds(Stored(rid))
     /\ activeConnections[w] # NoSock
     /\ activeConnections[w] \in sockOpen}

\* C31: when joinRoom has succeeded, player_joined reaches the socket of
\* every other occupant of the room and not the joiner's; when the handler
\* of a successful join ends, the joiner has received a room_state of the
\* room whose roster holds the joiner; a failed join sends no player_joined.
C31_JoinDelivers ==
  [][\A k \in DOMAIN ops :
       /\ (ops[k].kind = "join" /\ Returns(k, "true"))
          => /\ \A w \in OtherOccupants(ops[k].room, ops[k].user) :
                  \E m \in emitted' : /\ m.to = activeConnections[w]
                                      /\ m.type = "player_joined"
                                      /\ m.room = ops[k].room
                                      /\ m.data = Str(ops[k].user)
             /\ \A m \in emitted' \ emitted :
                  m.type = "player_joined" => m.to # ops[k].sock
       /\ (ops[k].kind = "join" /\ Returns(k, "false"))
          => \A m \in emitted' \ emitted : m.type # "player_joined"
       /\ (/\ ops[k].kind = "join"
           /\ ops[k].pc \in {"getRoomState", "Task.find"} /\ ops'[k].pc = "done"
           /\ ops[k].sock \in sockOpen)
          => \E m \in emitted' : /\ m.to = ops[k].sock
                                 /\ m.type = "room_state"
                                 /\ m.room = ops[k].room
                                 /\ \E j \in DOMAIN m.data.players :
                                      m.data.players[j].userId = ops[k].user]_vars

\* The handler k broadcasts floor_complete in this step
FloorBroadcast(k) == ops[k].floor = "none" /\ ops'[k].floor = "true"

\* C32: a completeTask that returns true broadcasts task_completed to every
\* socket of the room, the originator's included while it is in the room,
\* and the task is then stored once; one that returns false broadcasts
\* nothing; floor_complete is broadcast only by a handler whose completion
\* was applied and only while the stored room has every task of its current
\* house and floor completed.
C32_TaskBroadcasts ==
  [][\A k \in DOMAIN ops :
       /\ (ops[k].kind = "task" /\ Returns(k, "true"))
          => /\ \A s \in AllIn(ops[k].room) :
                  \E m \in emitted' : /\ m.to = s
                                      /\ m.type = "task_completed"
                                      /\ m.room = ops[k].room
                                      /\ m.data.taskId = ops[k].arg.taskId
             /\ Occurrences(Stored(ops[k].room).completedTasks,
                            ops[k].arg.taskId) <= 1
       /\ (ops[k].kind = "task" /\ Returns(k, "false"))
          => emitted' = emitted
       /\ (ops[k].kind = "task" /\ FloorBroadcast(k))
          => /\ ops[k].res = "true"
             /\ AllCompleted(Stored(ops[k].room))]_vars

\* The getRoomState call of handler k reads the room in this step
SnapshotRead(k) == ops[k].pc = "getRoomState" /\ ops'[k].pc # "getRoomState"

\* The getRoomState call of handler k returns its snapshot in this step
SnapshotStep(k) == ops[k].pc = "Task.find" /\ ops'[k].pc = "done"

\* C33: getRoomState changes no room, no cache and no binding; for a room
\* that is not stored or is inactive when it is read it yields no snapshot,
\* and it goes on to a snapshot only with the stored document of an active
\* room; every snapshot it yields lists as active exactly the catalog tasks
\* of the current house and floor of the room as read that are not
\* completed, so that the active and the completed ids are disjoint and
\* together cover the floor's catalog.
C33_SnapshotTasks ==
  [][\A k \in DOMAIN ops :
       /\ (SnapshotRead(k) \/ SnapshotStep(k))
          => UNCHANGED <<rooms, events, accounts, activeRooms, connectedPlayers,
                         activeConnections, userRooms, sockRooms>>
       /\ SnapshotRead(k)
          => LET room == Stored(ops[k].room)
             IN /\ emitted' = emitted
                /\ (room = NoDoc \/ ~room.isActive) => ops'[k].pc = "done"
                /\ ops'[k].pc # "done"
                     => (room # NoDoc /\ room.isActive /\ ops'[k].doc = room)
       /\ SnapshotStep(k)
          => LET room == ops[k].doc
             IN \A m \in emitted' \ emitted :
                 /\ m.type = "room_state"
                 /\ m.data.currentHouse = room.currentHouse
                 /\ m.data.currentFloor = room.currentFloor
                 /\ m.data.completedTasks = room.completedTasks
                 /\ m.data.activeTasks =
                      {taskId \in Catalog(room.currentHouse, room.currentFloor) :
                         taskId \notin Range(room.completedTasks)}
                 /\ m.data.activeTasks \cap Range(m.data.completedTasks) = {}
                 /\ Catalog(room.currentHouse, room.currentFloor)
                      \subseteq m.data.activeTasks \cup Range(m.data.completedTasks)]_vars

\* h has asked for the state of its room after completing A and has
\* received a snapshot with A completed and B active; u1 has received a
\* snapshot of the same room
C33_Witness ==
  /\ \E k \in DOMAIN ops : ops[k].kind = "state" /\ ops[k].user = "h" /\ ops[k].pc = "done"
  /\ \E m \in emitted : /\ m.to = "s0" /\ m.type = "room_state" /\ m.room = 1
                        /\ m.data.completedTasks = <<"A">>
                        /\ m.data.activeTasks = {"B"}
  /\ \E m \in emitted : m.to = "s1" /\ m.type = "room_state" /\ m.room = 1

\* The transport of the superseded socket s closes in this step, or its
\* 'disconnect' handler goes on
OldChannelCloses(s) ==
  /\ Superseded(s)
  /\ \/ s \in sockOpen /\ s \notin sockOpen'
     \/ \E k \in DOMAIN ops :
          ops[k].kind = "disconnect" /\ ops[k].sock = s /\ ops'[k] # ops[k]

\* C34: when the socket an identity authenticated on earlier closes after
\* the identity has authenticated on another socket, the disconnect keeps
\* the identity's entry in activeConnections, keeps its userRooms entry and
\* keeps the identity in the roster of every room.
C34_OldChannelCloseKeepsBinding ==
  [][\A s \in AllSockets :
       OldChannelCloses(s) =>
         /\ activeConnections'[sockUser[s]] = activeConnections[sockUser[s]]
         /\ userRooms'[sockUser[s]] = userRooms[sockUser[s]]
         /\ \A i \in DOMAIN rooms :
              sockUser[s] \in PlayerIds(rooms[i])
                => sockUser[s] \in PlayerIds(rooms'[i])]_vars

\* The leave_room handler k ends in this step, and no other leave of the
\* same identity is still being handled
LeaveHandled(k) ==
  /\ ops[k].kind = "leave" /\ ops[k].pc # "done" /\ ops'[k].pc = "done"
  /\ \A j \in DOMAIN ops \ {k} :
       ~(/\ ops[j].kind \in {"leave", "disconnect"}
         /\ ops[j].user = ops[k].user
         /\ InFlight(j))

\* C35: when the handler of a leave_room has ended, the identity is bound
\* to no room, it is not in the connected-player set of the room it left
\* and its socket is no longer subscribed to that room; so also when the
\* room had been deactivated before.
C35_LeaveUnbinds ==
  [][\A k \in DOMAIN ops :
       LeaveHandled(k) =>
         /\ userRooms'[ops[k].user] = NoRoomId
         /\ ops[k].user \notin connectedPlayers'[ops[k].room]
         /\ ops[k].room \notin sockRooms'[ops[k].sock]]_vars

\* C36: whenever no handler is in flight, userRooms binds an identity to a
\* room exactly if the identity is in the connected-player set of that
\* room, and every identity in the connected-player set of a room is in the
\* stored roster of that room, which is active.
C36_PresenceMapsAgree ==
  (\A k \in DOMAIN ops : ~InFlight(k)) =>
    \A rid \in RoomIdSet :
      /\ \A u \in AllUsers : userRooms[u] = rid <=> u \in connectedPlayers[rid]
      /\ \A u \in connectedPlayers[rid] :
           /\ Stored(rid) # NoDoc
           /\ Stored(rid).isActive
           /\ u \in PlayerIds(Stored(rid))

\* The join k is for an active room whose stored roster holds its identity
Rejoin(k) ==
  /\ ops[k].kind = "join"
  /\ FindActiveRoom(ops[k].room) # NoDoc
  /\ ops[k].user \in PlayerIds(FindActiveRoom(ops[k].room))

\* C37: a joinRoom of an identity that is in the roster of the room is not
\* refused, also when the roster is full, and none of its steps changes the
\* roster: no entry is added and every stored position stays.
C37_RejoinIsIdempotent ==
  [][\A k \in DOMAIN ops :
       (Rejoin(k) /\ ops'[k] # ops[k]) =>
         /\ ops'[k].res # "false"
         /\ Stored(ops[k].room)'.players = Stored(ops[k].room).players]_vars

\* C38: in every state the players roster of every stored room holds each
\* userId at most once.
C38_RosterHasNoDuplicate ==
  \A i \in DOMAIN rooms :
    \A a, b \in DOMAIN rooms[i].players :
      rooms[i].players[a].userId = rooms[i].players[b].userId => a = b

\* C39: in every state every active stored room has a roster that is not
\* empty and holds its hostUserId.
C39_ActiveRoomHasHost ==
  \A i \in DOMAIN rooms :
    rooms[i].isActive =>
      /\ rooms[i].players # <<>>
      /\ rooms[i].hostUserId \in PlayerIds(rooms[i])

\* u1 has joined the room of h and has left it: the room is active with h
\* alone in its roster
C39_Witness ==
  /\ \E k \in DOMAIN ops :
       /\ ops[k].kind \in {"leave", "disconnect"} /\ ops[k].user = "u1"
       /\ ops[k].pc = "done" /\ ops[k].res = "true"
  /\ Len(rooms) = 1
  /\ rooms[1].isActive
  /\ PlayerIds(rooms[1]) = {"h"}
  /\ Cardinality(EventsOf(1, "player_join")) = 1

\* C40: a completeTask that returns false has left the stored room as it
\* was before the call: it returns from its lookup or from a room.save()
\* that failed, never after its room.save() has written completedTasks.
C40_FailedTaskLeavesRoom ==
  [][\A k \in DOMAIN ops :
       (ops[k].kind = "task" /\ Returns(k, "false")) =>
         /\ rooms' = rooms
         /\ ops[k].pc \in {"findOne", "save"}]_vars

=============================================================================
